---- MODULE Spec2Model ----
(***************************************************************************)
(* Model of the MVR record store handlers (add-mvr, batch-add-mvr,        *)
(* get-mvr) and of the audit pipeline stages of proof-mvr.                 *)
(*                                                                         *)
(* The relational store is a set of rows per table.  A handler works on   *)
(* its own connection: statements executed after BEGIN go to the pending  *)
(* writes of that connection (tx) and become part of the committed store  *)
(* (db) at COMMIT; ROLLBACK discards them.  Every call to the database    *)
(* may be rejected (the awaited promise rejects); a rejected statement    *)
(* has no effect.  Every PutRecord to the event sink may be rejected too. *)
(* Dates are day numbers.                                                  *)
(***************************************************************************)
EXTENDS Integers, Sequences, FiniteSets, TLC

\* ---------------------------------------------------------------- bounds
MaxReq == 2          \* requests started in one behaviour
MaxRows == 2         \* entries of the longest child array of a payload
MaxBatch == 2        \* payloads of a batch request
MaxTicks == 1        \* clock advances in one behaviour
MaxPipeBatch == 2    \* records of a batch a pipeline stage transforms

\* ------------------------------------------------------ program constants
THIRTY_DAYS == 30

\* The handler invocations (each runs in a container of its own); p1 serves
\* the requests that arrive one after another.
Procs == {"p1", "p2"}
Licenses == {"L1", "L2"}
Companies == {"A", "B"}

\* The four child tables, in the order the handler fills them.
ChildTables == <<"traffic_violations", "withdrawals", "accident_reports", "traffic_crimes">>

\* The freshness windows retrieval requests are drawn from.
Days == {THIRTY_DAYS, THIRTY_DAYS + 1}

\* MVRData as far as the store workflow reads it: the license number, the
\* subject's name, the license fields that are present, the number of
\* entries of violations / withdrawals / accidents / crimes, the optional
\* storage_limitations in days (of the body for add-mvr, of the payload for
\* batch-add-mvr), and the optional dates (<<>>: the field is absent, <<d>>:
\* day d): order_date, and dates for report_date and date_uploaded.
Payload(l, s, order_date, dates) ==
  [drivers_license_number |-> l, full_legal_name |-> "n1",
   license |-> s.license, rows |-> s.rows,
   storage_limitations |-> s.storage_limitations,
   order_date |-> order_date, report_date |-> dates, date_uploaded |-> dates]

\* The payloads requests are drawn from.
MVRData ==
  { Payload("L1", [license |-> {}, rows |-> <<0, 0, 0, 0>>,
                    storage_limitations |-> <<>>], <<>>, <<>>),
    [Payload("L1", [license |-> {"license_class", "status"},
                     rows |-> <<MaxRows, 1, 0, 1>>,
                     storage_limitations |-> <<0>>], <<>>, <<>>)
       EXCEPT !.full_legal_name = "n2"],
    Payload("L2", [license |-> {"status"}, rows |-> <<0, 0, 1, 0>>,
                    storage_limitations |-> <<THIRTY_DAYS>>], <<>>,
            <<0 - THIRTY_DAYS - 1>>),
    Payload("L2", [license |-> {"issue_date"}, rows |-> <<0, 0, 0, 0>>,
                    storage_limitations |-> <<>>], <<>>, <<>>) }

\* ---------------------------------------------------------------- state
VARIABLES
  db,        \* committed store: users, mvr_records, drivers_license_info, child rows
  tx,        \* per connection: pending (uncommitted) writes
  now,       \* today's day number
  ticks,     \* clock advances so far
  reqCount,  \* requests started so far
  h,         \* per handler invocation: program position and locals
  audit,     \* PutRecord calls of the running invocations, in order
  accepted,  \* per license number: id of the MVRRecord of the last commit (0: none)
  pipe       \* the audit pipeline: the stage that runs next and the streams

vars == <<db, tx, now, ticks, reqCount, h, audit, accepted, pipe>>

\* ------------------------------------------------------------ the store
EmptyDb == [users |-> {}, mvr_records |-> {}, drivers_license_info |-> {}, child |-> {}]

\* ptr: set of <<user id, mvr id>>, the pending UPDATE users SET current_mvr_id
EmptyTx == [users |-> {}, mvr_records |-> {}, drivers_license_info |-> {},
            child |-> {}, ptr |-> {}]

\* Variant: the UPDATE of the pointer also clears the legal name.
Repoint_renaming(u, ptr) ==
  IF \E q \in ptr : q[1] = u.id
    THEN [u EXCEPT !.current_mvr_id = (CHOOSE q \in ptr : q[1] = u.id)[2],
                   !.full_legal_name = "none"]
    ELSE u

\* UPDATE users SET current_mvr_id = $1 WHERE id = $2 applied to the row u
Repoint(u, ptr) ==
  IF \E q \in ptr : q[1] = u.id
    THEN [u EXCEPT !.current_mvr_id = (CHOOSE q \in ptr : q[1] = u.id)[2]]
    ELSE u

\* The store as seen with the pending writes t applied; also the store after COMMIT.
Merge(d, t) ==
  [users                |-> { Repoint(u, t.ptr) : u \in d.users \cup t.users },
   mvr_records          |-> d.mvr_records \cup t.mvr_records,
   drivers_license_info |-> d.drivers_license_info \cup t.drivers_license_info,
   child                |-> d.child \cup t.child]

View(p) == Merge(db, tx[p])

\* RETURNING id of an INSERT: an id no committed or pending row of the table has.
FreshId(table) ==
  LET used == { r.id : r \in db[table] \cup UNION { tx[q][table] : q \in Procs } }
  IN  IF used = {} THEN 1 ELSE 1 + (CHOOSE i \in used : \A j \in used : j <= i)

\* ------------------------------------------------------- handler locals
NoUser == [id |-> 0, drivers_license_number |-> "none", current_mvr_id |-> 0,
           full_legal_name |-> "none"]

NoResponse == [statusCode |-> 0, message |-> "none", results |-> <<>>]

\* The aggregate get-mvr builds (mvrRecord), before any query has run.
NoRecord == [mvr_id |-> 0, company_id |-> "none", licenseInfo |-> FALSE,
             rows |-> <<>>]

\* No validation error has been raised.
NoError == [prefix |-> "", index |-> 0 - 1, errors |-> <<>>]

IdleLocals ==
  [pc |-> "idle", kind |-> "none", company_id |-> "none", mvrs |-> <<>>,
   idx |-> 1, userId |-> 0, currentMvrId |-> 0, hasRecentMvr |-> FALSE,
   mvrId |-> 0, finalUserId |-> 0, operationType |-> "",
   operationSuccess |-> FALSE, userData |-> NoUser, k |-> 1,
   results |-> <<>>, response |-> NoResponse, released |-> 0,
   dbError |-> FALSE, pre |-> EmptyDb, committed |-> {},
   days |-> 0, cutoffDate |-> 0, client |-> FALSE, mvrRecord |-> NoRecord,
   storage_limitations |-> <<>>, body |-> [kind |-> "none"], errorMessage |-> NoError]

\* No invocation is running (a finished or crashed one has left the runtime).
AllIdle == \A q \in Procs : h[q].pc \in {"idle", "done", "crashed"}

mvrData(p) == h[p].mvrs[h[p].idx]

\* One PutRecord of the handler invocation p.  audit records the call; whether
\* the sink accepted it shows in what the caller does next.
PutRecord(p, ev) == audit' = Append(audit, [ev EXCEPT !.proc = p])

\* batch_summary of the batch-level events: the counts of the results.  The
\* completion event carries all six fields, the failure event the first
\* three, and an event that is no batch-level event none; a field an event
\* does not carry is -1.
batch_summary(results, fields) ==
  LET Count(type) == Cardinality({ i \in 1..Len(results) : results[i].type = type })
      successful == Cardinality({ i \in 1..Len(results) : results[i].success })
      Field(f, n) == IF f <= fields THEN n ELSE 0 - 1
  IN  [total_records      |-> Field(1, Len(results)),
       successful_records |-> Field(2, successful),
       failed_records     |-> Field(3, Len(results) - successful),
       new_users          |-> Field(4, Count("NEW")),
       updated_users      |-> Field(5, Count("UPDATED")),
       skipped_records    |-> Field(6, Count("SKIPPED"))]

\* add-mvr sendAuditLog: the success WRITE event
WriteEvent(fn, userData, company_id, operation) ==
  [operation |-> operation, operation_category |-> "WRITE", success |-> TRUE,
   function_name |-> fn, company_id |-> company_id,
   drivers_license_number |-> userData.drivers_license_number,
   mvr_id |-> userData.current_mvr_id, user_id |-> userData.id,
   creator |-> company_id, accessor |-> "none", seller |-> company_id,
   batch_summary |-> batch_summary(<<>>, 0), proc |-> "none"]

\* Variant: the failure event names the requesting company as seller.
FailureEvent_withSeller(fn, cat, driversLicense, company_id, operation) ==
  [operation |-> operation, operation_category |-> cat, success |-> FALSE,
   function_name |-> fn, company_id |-> company_id,
   drivers_license_number |-> driversLicense,
   mvr_id |-> 0, user_id |-> 0,
   creator |-> "none", accessor |-> "none", seller |-> company_id,
   batch_summary |-> batch_summary(<<>>, 0), proc |-> "none"]

\* sendFailureAuditLog: the failure event
FailureEvent(fn, cat, driversLicense, company_id, operation) ==
  [operation |-> operation, operation_category |-> cat, success |-> FALSE,
   function_name |-> fn, company_id |-> company_id,
   drivers_license_number |-> driversLicense,
   mvr_id |-> 0, user_id |-> 0,
   creator |-> "none", accessor |-> "none", seller |-> "none",
   batch_summary |-> batch_summary(<<>>, 0), proc |-> "none"]

\* The pipeline before any record has arrived.
PipeIdle == [stage |-> "idle", company |-> <<>>, partitionOut |-> <<>>,
             individual |-> <<>>, subjectOut |-> <<>>,
             mirroring |-> <<>>, mirrorOut |-> <<>>]

\* --------------------------------------------------- queries of the store
\* SELECT id, current_mvr_id FROM users WHERE drivers_license_number = $1
SelectUsers(view, driversLicense) ==
  { u \in view.users : u.drivers_license_number = driversLicense }

\* Variant: the window compared with > instead of >=.
HasRecentMvr_strict(view, currentMvrId, today) ==
  \E r \in view.mvr_records :
     r.id = currentMvrId /\ r.date_uploaded > today - THIRTY_DAYS

\* Variant: the window is one day longer.
HasRecentMvr_wide(view, currentMvrId, today) ==
  \E r \in view.mvr_records :
     r.id = currentMvrId /\ r.date_uploaded >= today - THIRTY_DAYS - 1

\* SELECT id FROM mvr_records WHERE id = $1 AND date_uploaded >= $2, with
\* $2 = today - THIRTY_DAYS
HasRecentMvr(view, currentMvrId, today) ==
  \E r \in view.mvr_records :
     r.id = currentMvrId /\ r.date_uploaded >= today - THIRTY_DAYS

\* The local storage_limitations of add-mvr: the body's, and 5 * 365 when
\* that is undefined or negative.
StorageLimitations(value) ==
  IF value = <<>> \/ value[1] < 0 THEN <<5 * 365>> ELSE value

\* The row createMvrRecord inserts: order_date and report_date are the
\* payload's, else today; add-mvr writes date_uploaded = NOW();
\* storage_limitations is mvrData.storage_limitations || 5.
MvrRow(id, company_id, m, today) ==
  [id |-> id, company_id |-> company_id, date_uploaded |-> today,
   storage_limitations |->
     IF m.storage_limitations # <<>> /\ m.storage_limitations[1] # 0
       THEN m.storage_limitations[1] ELSE 5,
   order_date  |-> IF m.order_date # <<>> THEN m.order_date[1] ELSE today,
   report_date |-> IF m.report_date # <<>> THEN m.report_date[1] ELSE today]

\* The row createUser inserts.
UserRow(id, m, mvrId) ==
  [id |-> id, drivers_license_number |-> m.drivers_license_number,
   current_mvr_id |-> mvrId, full_legal_name |-> m.full_legal_name]

\* Variant: the UPDATE of the pointer is lost.
SetPointer_lost(ptr, userId, mvrId) == ptr

\* UPDATE users SET current_mvr_id = $1 WHERE id = $2, as a pending write
SetPointer(ptr, userId, mvrId) ==
  { q \in ptr : q[1] # userId } \cup { <<userId, mvrId>> }

\* add-mvr inserts the entries of a child array one INSERT per entry, in
\* input order: the statements for entries i..n of table t.  A statement
\* inserts the entries lo..hi of its table.
RECURSIVE RowsOf(_, _, _)
RowsOf(t, n, i) ==
  IF i > n THEN <<>>
  ELSE <<[table |-> ChildTables[t], lo |-> i, hi |-> i, fields |-> {}]>>
       \o RowsOf(t, n, i + 1)

\* addDriverLicenseInfo: one INSERT, skipped when license_class, issue_date
\* and expiration_date are all absent
LicenseInsert(m) ==
  IF m.license \cap {"license_class", "issue_date", "expiration_date"} # {}
    THEN <<[table |-> "drivers_license_info", lo |-> 1, hi |-> 1,
            fields |-> m.license]>>
    ELSE <<>>

\* The inserts that follow the Subject upsert, in the order add-mvr awaits
\* them: addDriverLicenseInfo, addTrafficViolations, addWithdrawals,
\* addAccidents, addTrafficCrimes.
Cascade(m) ==
  LicenseInsert(m)
    \o RowsOf(1, m.rows[1], 1) \o RowsOf(2, m.rows[2], 1)
    \o RowsOf(3, m.rows[3], 1) \o RowsOf(4, m.rows[4], 1)

\* One INSERT of the cascade as a pending write.
InsertChild(t, st, mvrId) ==
  IF st.table = "drivers_license_info"
    THEN [t EXCEPT !.drivers_license_info =
                     @ \cup {[mvr_id |-> mvrId, fields |-> st.fields]}]
    ELSE [t EXCEPT !.child = @ \cup { [table |-> st.table, mvr_id |-> mvrId, k |-> i] :
                                        i \in st.lo..st.hi }]

\* The store after company A's add-mvr request for license L1 (no license
\* field, no child entries) was accepted on day 0 into the empty store.
SeedDb ==
  LET m == Payload("L1", [license |-> {}, rows |-> <<0, 0, 0, 0>>,
                          storage_limitations |-> StorageLimitations(<<>>)],
                   <<>>, <<>>)
  IN  Merge(EmptyDb, [EmptyTx EXCEPT !.mvr_records = {MvrRow(1, "A", m, 0)},
                                      !.users = {UserRow(1, m, 1)}])

\* A behaviour starts on day 0 from the empty store, or from the store an
\* accepted add-mvr request of company A for license L1 leaves on that day.
Init ==
  /\ \/ db = EmptyDb /\ accepted = [l \in Licenses |-> 0]
     \/ db = SeedDb  /\ accepted = [l \in Licenses |-> IF l = "L1" THEN 1 ELSE 0]
  /\ tx = [p \in Procs |-> EmptyTx]
  /\ now = 0
  /\ ticks = 0
  /\ reqCount = 0
  /\ h = [p \in Procs |-> IdleLocals]
  /\ audit = <<>>
  /\ pipe = PipeIdle

\* The calendar advances between requests; only differences of dates are
\* observable, so the clock starts to move after the first request.
Tick ==
  /\ AllIdle
  /\ reqCount > 0
  /\ ticks < MaxTicks
  /\ \E d \in {THIRTY_DAYS, THIRTY_DAYS + 1} : now' = now + d
  /\ ticks' = ticks + 1
  /\ UNCHANGED <<db, tx, reqCount, h, audit, accepted, pipe>>

\* ------------------------------------------------------------- add-mvr
\* lambdaHandler of add-mvr, one action per awaited call.  The request has
\* passed validation (company_id is a non-empty string).

\* A call to the database was rejected inside the try block.
Thrown(L) == [L EXCEPT !.pc = "catch", !.dbError = TRUE]

Add_Start(p) ==
  /\ AllIdle
  /\ reqCount < MaxReq
  /\ \E c \in Companies, m \in MVRData :
       h' = [h EXCEPT ![p] = [IdleLocals EXCEPT !.pc = "connect", !.kind = "add",
                                !.company_id = c, !.mvrs = <<m>>, !.pre = db,
                                !.storage_limitations =
                                   StorageLimitations(m.storage_limitations)]]
  /\ reqCount' = reqCount + 1
  /\ audit' = <<>>
  /\ UNCHANGED <<db, tx, now, ticks, accepted, pipe>>

\* createDatabasePool / pool.connect, outside every try block: a rejection
\* ends the invocation without a response.
Add_connect(p) ==
  /\ h[p].kind = "add" /\ h[p].pc = "connect"
  /\ \E ok \in BOOLEAN :
       h' = [h EXCEPT ![p] = IF ok THEN [@ EXCEPT !.pc = "begin"]
                                   ELSE [@ EXCEPT !.pc = "crashed", !.dbError = TRUE]]
  /\ UNCHANGED <<db, tx, now, ticks, reqCount, audit, accepted, pipe>>

Add_BEGIN(p) ==
  /\ h[p].kind = "add" /\ h[p].pc = "begin"
  /\ \E ok \in BOOLEAN :
       h' = [h EXCEPT ![p] = IF ok THEN [@ EXCEPT !.pc = "check_user"] ELSE Thrown(@)]
  /\ UNCHANGED <<db, tx, now, ticks, reqCount, audit, accepted, pipe>>

\* Variant: the users row is read FOR UPDATE, the statement waits while
\* another connection is between its own read of the row and the end of its
\* transaction.
WaitsForLock_forUpdate(p, driversLicense) ==
  \E q \in Procs \ {p} :
     /\ h[q].kind = "add"
     /\ h[q].mvrs[1].drivers_license_number = driversLicense
     /\ h[q].pc \in {"check_recent", "create_mvr", "upsert_user", "cascade",
                     "commit", "dup_commit", "catch"}

\* userQuery is a plain SELECT: it takes no lock on the users row and waits
\* for no other connection.
WaitsForLock(p, driversLicense) == FALSE

\* The UPDATE of a users row waits while another connection has an
\* uncommitted UPDATE of that row.
RowLocked(p, userId) ==
  \E q \in Procs \ {p} : \E x \in tx[q].ptr : x[1] = userId

\* The unique key of users on drivers_license_number: an INSERT goes through
\* when no committed row and no pending row of a connection has the license
\* number; it waits for a connection with a pending row, and is rejected once
\* a row with the license number is committed.
UniqueKey(driversLicense) ==
  \A u \in db.users \cup UNION { tx[q].users : q \in Procs } :
     u.drivers_license_number # driversLicense

\* checkExistingUser, first query: the users row of the license number
Add_checkExistingUser(p) ==
  /\ h[p].kind = "add" /\ h[p].pc = "check_user"
  /\ ~WaitsForLock(p, mvrData(p).drivers_license_number)
  /\ LET rows == SelectUsers(View(p), mvrData(p).drivers_license_number) IN
       \/ h' = [h EXCEPT ![p] = Thrown(@)]
       \/ /\ rows = {}
          /\ h' = [h EXCEPT ![p] = [@ EXCEPT !.pc = "create_mvr", !.userId = 0,
                                      !.currentMvrId = 0, !.hasRecentMvr = FALSE]]
       \/ \E u \in rows :
            h' = [h EXCEPT ![p] =
                    [@ EXCEPT !.userId = u.id, !.currentMvrId = u.current_mvr_id,
                              !.hasRecentMvr = FALSE,
                              !.pc = IF u.current_mvr_id = 0 THEN "create_mvr"
                                                             ELSE "check_recent"]]
  /\ UNCHANGED <<db, tx, now, ticks, reqCount, audit, accepted, pipe>>

\* checkExistingUser, second query: is the current record inside the window
Add_checkRecentMvr(p) ==
  /\ h[p].kind = "add" /\ h[p].pc = "check_recent"
  /\ LET recent == HasRecentMvr(View(p), h[p].currentMvrId, now) IN
       \/ h' = [h EXCEPT ![p] = Thrown(@)]
       \/ h' = [h EXCEPT ![p] =
                  [@ EXCEPT !.hasRecentMvr = recent,
                            !.pc = IF h[p].userId # 0 /\ recent THEN "dup_commit"
                                                             ELSE "create_mvr"]]
  /\ UNCHANGED <<db, tx, now, ticks, reqCount, audit, accepted, pipe>>

\* Variant: COMMIT makes the Subject and the MVRRecord visible and loses the
\* child rows.
Commit_withoutChildren(p) ==
  Merge(db, [tx[p] EXCEPT !.child = {}, !.drivers_license_info = {}])

\* The store after COMMIT on the connection of p.
\* Variant: COMMIT removes the MVRRecords no Subject points to any more.
Commit_superseding(p) ==
  LET m == Merge(db, tx[p])
  IN  [m EXCEPT !.mvr_records =
         { r \in @ : \E u \in m.users : u.current_mvr_id = r.id }]

Commit(p) == Merge(db, tx[p])

\* Variant: the catch block leaves the pending writes on the connection.
Rollback_skipped(p) == tx[p]

\* The pending writes after ROLLBACK.
Rollback(p) == EmptyTx

\* Duplicate inside the window: COMMIT of the (empty) transaction
Add_dupCOMMIT(p) ==
  /\ h[p].kind = "add" /\ h[p].pc = "dup_commit"
  /\ \/ /\ h' = [h EXCEPT ![p] = Thrown(@)]
        /\ UNCHANGED <<db, tx>>
     \/ /\ db' = Commit(p)
        /\ tx' = [tx EXCEPT ![p] = EmptyTx]
        /\ h' = [h EXCEPT ![p] = [@ EXCEPT !.pc = "dup_reread"]]
  /\ UNCHANGED <<now, ticks, reqCount, audit, accepted, pipe>>

\* SELECT ... FROM users WHERE id = $1; throws when no row is found
GetUserData(d, userId) ==
  IF \E u \in d.users : u.id = userId
    THEN CHOOSE u \in d.users : u.id = userId
    ELSE NoUser

Add_dupGetUserData(p) ==
  /\ h[p].kind = "add" /\ h[p].pc = "dup_reread"
  /\ LET u == GetUserData(View(p), h[p].userId) IN
       \/ h' = [h EXCEPT ![p] = Thrown(@)]
       \/ h' = [h EXCEPT ![p] =
                  IF u.id = 0 THEN [@ EXCEPT !.pc = "catch"]
                  ELSE [@ EXCEPT !.userData = u,
                                 !.operationType = "DUPLICATE_MVR_ATTEMPT",
                                 !.operationSuccess = TRUE,
                                 !.response = [statusCode |-> 200,
                                               message |-> "MVR uploaded less than 30 days ago",
                                               results |-> <<>>],
                                 !.pc = "dup_audit"]]
  /\ UNCHANGED <<db, tx, now, ticks, reqCount, audit, accepted, pipe>>

\* What add-mvr does once firehose.send has settled (ok: the sink accepted).
\* sendAuditLog and sendFailureAuditLog catch and log the rejection.  After the
\* duplicate's event the handler returns from inside the try block (finally
\* releases the connection); after the failure event finally runs; after the
\* success event the handler returns responseToReturn.
Add_afterPut(L, ok) ==
  CASE L.pc = "dup_audit"  -> [L EXCEPT !.pc = "done", !.released = @ + 1]
    [] L.pc = "fail_audit" -> [L EXCEPT !.pc = "post", !.released = @ + 1]
    [] L.pc = "post"       -> [L EXCEPT !.pc = "done"]
    [] OTHER               -> L

Add_dupSendAuditLog(p) ==
  /\ h[p].kind = "add" /\ h[p].pc = "dup_audit"
  /\ PutRecord(p, WriteEvent("add-mvr-lambda", h[p].userData, h[p].company_id,
                             h[p].operationType))
  /\ \E ok \in BOOLEAN : h' = [h EXCEPT ![p] = Add_afterPut(@, ok)]
  /\ UNCHANGED <<db, tx, now, ticks, reqCount, accepted, pipe>>

\* createMvrRecord: INSERT INTO mvr_records ... RETURNING id
Add_createMvrRecord(p) ==
  /\ h[p].kind = "add" /\ h[p].pc = "create_mvr"
  /\ \/ /\ h' = [h EXCEPT ![p] = Thrown(@)]
        /\ UNCHANGED tx
     \/ LET id == FreshId("mvr_records") IN
        /\ tx' = [tx EXCEPT ![p].mvr_records =
                     @ \cup {MvrRow(id, h[p].company_id,
                                    [mvrData(p) EXCEPT !.storage_limitations =
                                                         h[p].storage_limitations],
                                    now)}]
        /\ h' = [h EXCEPT ![p] = [@ EXCEPT !.mvrId = id, !.pc = "upsert_user"]]
  /\ UNCHANGED <<db, now, ticks, reqCount, audit, accepted, pipe>>

\* updateUserMvrId for an existing Subject, else createUser
Add_upsertUser(p) ==
  /\ h[p].kind = "add" /\ h[p].pc = "upsert_user"
  /\ LET next == IF Cascade(mvrData(p)) = <<>> THEN "commit" ELSE "cascade" IN
     \/ /\ h' = [h EXCEPT ![p] = Thrown(@)]
        /\ UNCHANGED tx
     \/ /\ h[p].userId # 0
        /\ ~RowLocked(p, h[p].userId)
        /\ tx' = [tx EXCEPT ![p].ptr = SetPointer(@, h[p].userId, h[p].mvrId)]
        /\ h' = [h EXCEPT ![p] = [@ EXCEPT !.finalUserId = h[p].userId,
                                    !.operationType = "UPDATE_MVR", !.k = 1,
                                    !.pc = next]]
     \/ /\ h[p].userId = 0
        /\ UniqueKey(mvrData(p).drivers_license_number)
        /\ LET id == FreshId("users") IN
           /\ tx' = [tx EXCEPT ![p].users = @ \cup {UserRow(id, mvrData(p), h[p].mvrId)}]
           /\ h' = [h EXCEPT ![p] = [@ EXCEPT !.finalUserId = id,
                                       !.operationType = "CREATE_MVR", !.k = 1,
                                       !.pc = next]]
  /\ UNCHANGED <<db, now, ticks, reqCount, audit, accepted, pipe>>

\* The k-th insert of addDriverLicenseInfo ... addTrafficCrimes
Add_cascade(p) ==
  /\ h[p].kind = "add" /\ h[p].pc = "cascade"
  /\ LET c == Cascade(mvrData(p)) IN
     \/ /\ h' = [h EXCEPT ![p] = Thrown(@)]
        /\ UNCHANGED tx
     \/ /\ tx' = [tx EXCEPT ![p] = InsertChild(@, c[h[p].k], h[p].mvrId)]
        /\ h' = [h EXCEPT ![p] = [@ EXCEPT !.k = @ + 1,
                                    !.pc = IF h[p].k = Len(c) THEN "commit" ELSE "cascade"]]
  /\ UNCHANGED <<db, now, ticks, reqCount, audit, accepted, pipe>>

Add_COMMIT(p) ==
  /\ h[p].kind = "add" /\ h[p].pc = "commit"
  /\ \/ /\ h' = [h EXCEPT ![p] = Thrown(@)]
        /\ UNCHANGED <<db, tx, accepted>>
     \/ /\ db' = Commit(p)
        /\ tx' = [tx EXCEPT ![p] = EmptyTx]
        /\ accepted' = [accepted EXCEPT ![mvrData(p).drivers_license_number] = h[p].mvrId]
        /\ h' = [h EXCEPT ![p] = [@ EXCEPT !.operationSuccess = TRUE,
                                    !.committed = {h[p].mvrId}, !.pc = "reread"]]
  /\ UNCHANGED <<now, ticks, reqCount, audit, pipe>>

\* getUserData after COMMIT, still inside the try block
Add_getUserData(p) ==
  /\ h[p].kind = "add" /\ h[p].pc = "reread"
  /\ LET u == GetUserData(View(p), h[p].finalUserId) IN
       \/ h' = [h EXCEPT ![p] = Thrown(@)]
       \/ h' = [h EXCEPT ![p] =
                  IF u.id = 0 THEN [@ EXCEPT !.pc = "catch"]
                  ELSE [@ EXCEPT !.userData = u,
                                 !.response = [statusCode |-> 201,
                                               message |-> IF h[p].userId # 0
                                                  THEN "User MVR updated successfully"
                                                  ELSE "New user and MVR created successfully",
                                               results |-> <<>>],
                                 !.released = @ + 1,
                                 !.pc = "post"]]
  /\ UNCHANGED <<db, tx, now, ticks, reqCount, audit, accepted, pipe>>

\* catch: ROLLBACK.  When the ROLLBACK itself is rejected the exception leaves
\* the handler (finally releases the connection); the server discards the
\* transaction of a connection it lost.
Add_catch(p) ==
  /\ h[p].kind = "add" /\ h[p].pc = "catch"
  /\ tx' = [tx EXCEPT ![p] = Rollback(p)]
  /\ \/ h' = [h EXCEPT ![p] = [@ EXCEPT !.pc = "crashed", !.released = @ + 1]]
     \/ h' = [h EXCEPT ![p] =
                [@ EXCEPT !.response = [statusCode |-> 500, message |-> "error",
                                        results |-> <<>>],
                          !.pc = "fail_audit"]]
  /\ UNCHANGED <<db, now, ticks, reqCount, audit, accepted, pipe>>

\* sendFailureAuditLog (company_id is set), then finally
Add_sendFailureAuditLog(p) ==
  /\ h[p].kind = "add" /\ h[p].pc = "fail_audit"
  /\ PutRecord(p, FailureEvent("add-mvr-lambda", "WRITE",
                               mvrData(p).drivers_license_number, h[p].company_id,
                               "CREATE_MVR_FAILED"))
  /\ \E ok \in BOOLEAN : h' = [h EXCEPT ![p] = Add_afterPut(@, ok)]
  /\ UNCHANGED <<db, tx, now, ticks, reqCount, accepted, pipe>>

\* After finally: the success audit event, then return responseToReturn
Add_sendAuditLog(p) ==
  /\ h[p].kind = "add" /\ h[p].pc = "post"
  /\ IF h[p].operationSuccess /\ h[p].userData.id # 0
       THEN /\ PutRecord(p, WriteEvent("add-mvr-lambda", h[p].userData, h[p].company_id,
                                       h[p].operationType))
            /\ \E ok \in BOOLEAN : h' = [h EXCEPT ![p] = Add_afterPut(@, ok)]
       ELSE /\ UNCHANGED audit
            /\ h' = [h EXCEPT ![p] = [@ EXCEPT !.pc = "done"]]
  /\ UNCHANGED <<db, tx, now, ticks, reqCount, accepted, pipe>>

\* The handler from the first awaited call on.
AddSteps(p) ==
  \/ Add_connect(p) \/ Add_BEGIN(p)
  \/ Add_checkExistingUser(p) \/ Add_checkRecentMvr(p)
  \/ Add_dupCOMMIT(p) \/ Add_dupGetUserData(p) \/ Add_dupSendAuditLog(p)
  \/ Add_createMvrRecord(p) \/ Add_upsertUser(p) \/ Add_cascade(p)
  \/ Add_COMMIT(p) \/ Add_getUserData(p) \/ Add_catch(p)
  \/ Add_sendFailureAuditLog(p) \/ Add_sendAuditLog(p)

AddMvr(p) == Add_Start(p) \/ AddSteps(p)

\* ------------------------------------------------------- batch-add-mvr
\* lambdaHandler and processSingleMvr of batch-add-mvr.  The batch has
\* passed validation (every payload carries a license number).

\* batch-add-mvr inserts a non-empty child array with one multi-row INSERT.
MultiRowInsert(t, n) ==
  IF n = 0 THEN <<>>
  ELSE <<[table |-> ChildTables[t], lo |-> 1, hi |-> n, fields |-> {}]>>

\* The inserts Promise.all starts for one payload.  The five functions run
\* on one connection, which serves their statements in the order they are
\* issued.
BatchCascade(m) ==
  LicenseInsert(m)
    \o MultiRowInsert(1, m.rows[1]) \o MultiRowInsert(2, m.rows[2])
    \o MultiRowInsert(3, m.rows[3]) \o MultiRowInsert(4, m.rows[4])

\* batch-add-mvr writes the payload's date_uploaded when it carries one.
BatchMvrRow(id, company_id, m, today) ==
  [MvrRow(id, company_id, m, today) EXCEPT
     !.date_uploaded = IF m.date_uploaded # <<>> THEN m.date_uploaded[1] ELSE today]

\* The BatchProcessResult of one payload.
Result(success, type, m, mvrId, userId) ==
  [success |-> success, type |-> type,
   drivers_license_number |-> m.drivers_license_number,
   mvr_id |-> mvrId, user_id |-> userId]

\* results.push(result) and the next round of the for loop; after the last
\* payload: throw when a result failed, else go on to COMMIT.
Pushed(L, r) ==
  LET rs == Append(L.results, r) IN
  [L EXCEPT !.results = rs,
            !.idx = IF L.idx < Len(L.mvrs) THEN L.idx + 1 ELSE L.idx,
            !.userId = 0, !.currentMvrId = 0, !.hasRecentMvr = FALSE,
            !.mvrId = 0, !.finalUserId = 0, !.k = 1,
            !.pc = IF L.idx < Len(L.mvrs) THEN "check_user"
                   ELSE IF \E i \in 1..Len(rs) : ~rs[i].success THEN "catch"
                   ELSE "commit"]

\* A call to the database was rejected inside processSingleMvr's try block.
ElementThrown(L) == [L EXCEPT !.pc = "el_catch", !.dbError = TRUE]

Batch_Start(p) ==
  /\ AllIdle
  /\ reqCount < MaxReq
  /\ \E c \in Companies, b \in UNION { [1..n -> MVRData] : n \in 1..MaxBatch } :
       h' = [h EXCEPT ![p] = [IdleLocals EXCEPT !.pc = "connect", !.kind = "batch",
                                !.company_id = c, !.mvrs = b, !.pre = db]]
  /\ reqCount' = reqCount + 1
  /\ audit' = <<>>
  /\ UNCHANGED <<db, tx, now, ticks, accepted, pipe>>

Batch_connect(p) ==
  /\ h[p].kind = "batch" /\ h[p].pc = "connect"
  /\ \E ok \in BOOLEAN :
       h' = [h EXCEPT ![p] = IF ok THEN [@ EXCEPT !.pc = "begin"]
                                   ELSE [@ EXCEPT !.pc = "crashed", !.dbError = TRUE]]
  /\ UNCHANGED <<db, tx, now, ticks, reqCount, audit, accepted, pipe>>

Batch_BEGIN(p) ==
  /\ h[p].kind = "batch" /\ h[p].pc = "begin"
  /\ \E ok \in BOOLEAN :
       h' = [h EXCEPT ![p] = IF ok THEN [@ EXCEPT !.pc = "check_user"] ELSE Thrown(@)]
  /\ UNCHANGED <<db, tx, now, ticks, reqCount, audit, accepted, pipe>>

Batch_checkExistingUser(p) ==
  /\ h[p].kind = "batch" /\ h[p].pc = "check_user"
  /\ LET rows == SelectUsers(View(p), mvrData(p).drivers_license_number) IN
       \/ h' = [h EXCEPT ![p] = ElementThrown(@)]
       \/ /\ rows = {}
          /\ h' = [h EXCEPT ![p] = [@ EXCEPT !.pc = "create_mvr", !.userId = 0,
                                      !.currentMvrId = 0, !.hasRecentMvr = FALSE]]
       \/ \E u \in rows :
            h' = [h EXCEPT ![p] =
                    [@ EXCEPT !.userId = u.id, !.currentMvrId = u.current_mvr_id,
                              !.hasRecentMvr = FALSE,
                              !.pc = IF u.current_mvr_id = 0 THEN "create_mvr"
                                                             ELSE "check_recent"]]
  /\ UNCHANGED <<db, tx, now, ticks, reqCount, audit, accepted, pipe>>

Batch_checkRecentMvr(p) ==
  /\ h[p].kind = "batch" /\ h[p].pc = "check_recent"
  /\ LET recent == HasRecentMvr(View(p), h[p].currentMvrId, now) IN
       \/ h' = [h EXCEPT ![p] = ElementThrown(@)]
       \/ h' = [h EXCEPT ![p] =
                  IF h[p].userId # 0 /\ recent
                    THEN Pushed(@, Result(TRUE, "SKIPPED", mvrData(p), 0, h[p].userId))
                    ELSE [@ EXCEPT !.hasRecentMvr = recent, !.pc = "create_mvr"]]
  /\ UNCHANGED <<db, tx, now, ticks, reqCount, audit, accepted, pipe>>

Batch_createMvrRecord(p) ==
  /\ h[p].kind = "batch" /\ h[p].pc = "create_mvr"
  /\ \/ /\ h' = [h EXCEPT ![p] = ElementThrown(@)]
        /\ UNCHANGED tx
     \/ LET id == FreshId("mvr_records") IN
        /\ tx' = [tx EXCEPT ![p].mvr_records =
                     @ \cup {BatchMvrRow(id, h[p].company_id, mvrData(p), now)}]
        /\ h' = [h EXCEPT ![p] = [@ EXCEPT !.mvrId = id, !.pc = "upsert_user"]]
  /\ UNCHANGED <<db, now, ticks, reqCount, audit, accepted, pipe>>

Batch_upsertUser(p) ==
  /\ h[p].kind = "batch" /\ h[p].pc = "upsert_user"
  /\ LET next == IF BatchCascade(mvrData(p)) = <<>> THEN "reread" ELSE "cascade" IN
     \/ /\ h' = [h EXCEPT ![p] = ElementThrown(@)]
        /\ UNCHANGED tx
     \/ /\ h[p].userId # 0
        /\ ~RowLocked(p, h[p].userId)
        /\ tx' = [tx EXCEPT ![p].ptr = SetPointer(@, h[p].userId, h[p].mvrId)]
        /\ h' = [h EXCEPT ![p] = [@ EXCEPT !.finalUserId = h[p].userId, !.k = 1,
                                    !.pc = next]]
     \/ /\ h[p].userId = 0
        /\ UniqueKey(mvrData(p).drivers_license_number)
        /\ LET id == FreshId("users") IN
           /\ tx' = [tx EXCEPT ![p].users = @ \cup {UserRow(id, mvrData(p), h[p].mvrId)}]
           /\ h' = [h EXCEPT ![p] = [@ EXCEPT !.finalUserId = id, !.k = 1, !.pc = next]]
  /\ UNCHANGED <<db, now, ticks, reqCount, audit, accepted, pipe>>

\* Promise.all rejects with the first rejected statement.  The statements
\* still queued behind it go to the same transaction, which the handler rolls
\* back because this payload's result is a failure; they are left out.
Batch_cascade(p) ==
  /\ h[p].kind = "batch" /\ h[p].pc = "cascade"
  /\ LET c == BatchCascade(mvrData(p)) IN
     \/ /\ h' = [h EXCEPT ![p] = ElementThrown(@)]
        /\ UNCHANGED tx
     \/ /\ tx' = [tx EXCEPT ![p] = InsertChild(@, c[h[p].k], h[p].mvrId)]
        /\ h' = [h EXCEPT ![p] = [@ EXCEPT !.k = @ + 1,
                                    !.pc = IF h[p].k = Len(c) THEN "reread" ELSE "cascade"]]
  /\ UNCHANGED <<db, now, ticks, reqCount, audit, accepted, pipe>>

\* Variant: every inserted payload is tagged NEW.
Inserted_new(L) ==
  Result(TRUE, "NEW", L.mvrs[L.idx], L.mvrId, L.finalUserId)

\* The result processSingleMvr returns for a payload it inserted.
Inserted(L) ==
  Result(TRUE, IF L.userId # 0 THEN "UPDATED" ELSE "NEW", L.mvrs[L.idx],
         L.mvrId, L.finalUserId)

\* What batch-add-mvr does once firehose.send has settled (ok: the sink
\* accepted).  sendAuditLog and sendBatchAuditLog rethrow the rejection and
\* the try block around each call catches and logs it; the two failure
\* events are sent inside a try block of their own.
Batch_afterPut(L, ok) ==
  CASE L.pc = "el_audit"   -> Pushed(L, Inserted(L))
    [] L.pc = "el_catch"   -> Pushed(L, Result(FALSE, "ERROR", L.mvrs[L.idx], 0, 0))
    [] L.pc = "summary"    -> [L EXCEPT !.response = [statusCode |-> 200,
                                                       message |-> "Processed",
                                                       results |-> L.results],
                                         !.released = @ + 1, !.pc = "done"]
    [] L.pc = "fail_audit" -> [L EXCEPT !.response = [statusCode |-> 500,
                                                       message |-> "error",
                                                       results |-> L.results],
                                         !.released = @ + 1, !.pc = "done"]
    [] OTHER               -> L

\* Inner try: getUserData inside the transaction; a rejection is caught and
\* logged, the payload still counts as processed.
Batch_getUserData(p) ==
  /\ h[p].kind = "batch" /\ h[p].pc = "reread"
  /\ LET u == GetUserData(View(p), h[p].finalUserId) IN
       \/ h' = [h EXCEPT ![p] = Pushed([@ EXCEPT !.dbError = TRUE], Inserted(@))]
       \/ h' = [h EXCEPT ![p] = IF u.id = 0 THEN Pushed(@, Inserted(@))
                                ELSE [@ EXCEPT !.userData = u, !.pc = "el_audit"]]
  /\ UNCHANGED <<db, tx, now, ticks, reqCount, audit, accepted, pipe>>

\* Inner try: sendAuditLog rethrows the sink's rejection, the inner catch logs it.
Batch_sendAuditLog(p) ==
  /\ h[p].kind = "batch" /\ h[p].pc = "el_audit"
  /\ PutRecord(p, WriteEvent("batch-add-mvr-lambda", h[p].userData, h[p].company_id,
                             IF h[p].userId # 0 THEN "BATCH_UPDATE_MVR"
                                                ELSE "BATCH_CREATE_MVR"))
  /\ \E ok \in BOOLEAN : h' = [h EXCEPT ![p] = Batch_afterPut(@, ok)]
  /\ UNCHANGED <<db, tx, now, ticks, reqCount, accepted, pipe>>

\* catch of processSingleMvr: the failure event, then the ERROR result
Batch_elementFailed(p) ==
  /\ h[p].kind = "batch" /\ h[p].pc = "el_catch"
  /\ PutRecord(p, FailureEvent("batch-add-mvr-lambda", "WRITE",
                               mvrData(p).drivers_license_number, h[p].company_id,
                               "BATCH_CREATE_MVR_FAILED"))
  /\ \E ok \in BOOLEAN : h' = [h EXCEPT ![p] = Batch_afterPut(@, ok)]
  /\ UNCHANGED <<db, tx, now, ticks, reqCount, accepted, pipe>>

\* Per license number, the record of the last payload the batch inserted for it.
LastInserted(rs, l, old) ==
  LET is == { i \in 1..Len(rs) : rs[i].drivers_license_number = l /\ rs[i].mvr_id # 0 }
  IN  IF is = {} THEN old
      ELSE rs[CHOOSE i \in is : \A j \in is : j <= i].mvr_id

Batch_COMMIT(p) ==
  /\ h[p].kind = "batch" /\ h[p].pc = "commit"
  /\ \/ /\ h' = [h EXCEPT ![p] = Thrown(@)]
        /\ UNCHANGED <<db, tx, accepted>>
     \/ /\ db' = Commit(p)
        /\ tx' = [tx EXCEPT ![p] = EmptyTx]
        /\ accepted' = [l \in Licenses |-> LastInserted(h[p].results, l, accepted[l])]
        /\ h' = [h EXCEPT ![p] =
                   [@ EXCEPT !.committed = { h[p].results[i].mvr_id :
                                               i \in 1..Len(h[p].results) } \ {0},
                             !.pc = "summary"]]
  /\ UNCHANGED <<now, ticks, reqCount, audit, pipe>>

\* sendBatchAuditLog and the batch failure event: the batch-level summary
SummaryEvent(company_id, operation, success, summary) ==
  [operation |-> operation, operation_category |-> "WRITE", success |-> success,
   function_name |-> "batch-add-mvr-lambda", company_id |-> company_id,
   drivers_license_number |-> "none", mvr_id |-> 0, user_id |-> 0,
   creator |-> "none", accessor |-> "none", seller |-> "none",
   batch_summary |-> summary, proc |-> "none"]

\* sendBatchAuditLog in its try block, then the 200 response
Batch_sendBatchAuditLog(p) ==
  /\ h[p].kind = "batch" /\ h[p].pc = "summary"
  /\ PutRecord(p, SummaryEvent(h[p].company_id, "BATCH_PROCESS_COMPLETE",
                               \A i \in 1..Len(h[p].results) : h[p].results[i].success,
                               batch_summary(h[p].results, 6)))
  /\ \E ok \in BOOLEAN : h' = [h EXCEPT ![p] = Batch_afterPut(@, ok)]
  /\ UNCHANGED <<db, tx, now, ticks, reqCount, accepted, pipe>>

Batch_catch(p) ==
  /\ h[p].kind = "batch" /\ h[p].pc = "catch"
  /\ tx' = [tx EXCEPT ![p] = Rollback(p)]
  /\ \/ h' = [h EXCEPT ![p] = [@ EXCEPT !.pc = "crashed", !.released = @ + 1]]
     \/ h' = [h EXCEPT ![p] = [@ EXCEPT !.pc = "fail_audit"]]
  /\ UNCHANGED <<db, now, ticks, reqCount, audit, accepted, pipe>>

\* The BATCH_PROCESS_FAILED event in its own try, then the 500 response
Batch_sendFailureAudit(p) ==
  /\ h[p].kind = "batch" /\ h[p].pc = "fail_audit"
  /\ PutRecord(p, SummaryEvent(h[p].company_id, "BATCH_PROCESS_FAILED", FALSE,
                               batch_summary(h[p].results, 3)))
  /\ \E ok \in BOOLEAN : h' = [h EXCEPT ![p] = Batch_afterPut(@, ok)]
  /\ UNCHANGED <<db, tx, now, ticks, reqCount, accepted, pipe>>

BatchAddMvr(p) ==
  \/ Batch_Start(p) \/ Batch_connect(p) \/ Batch_BEGIN(p)
  \/ Batch_checkExistingUser(p) \/ Batch_checkRecentMvr(p)
  \/ Batch_createMvrRecord(p) \/ Batch_upsertUser(p) \/ Batch_cascade(p)
  \/ Batch_getUserData(p) \/ Batch_sendAuditLog(p) \/ Batch_elementFailed(p)
  \/ Batch_COMMIT(p) \/ Batch_sendBatchAuditLog(p)
  \/ Batch_catch(p) \/ Batch_sendFailureAudit(p)

\* -------------------------------------------------------------- get-mvr
\* lambdaHandler of get-mvr, one action per awaited call.  The request has
\* passed validation.  The handler opens no transaction: every query reads
\* the committed store at the moment it runs.

\* Variant: the retrieval event written with the ingestion's category.
ReadEvent_asWrite(userData, mvrRecord, company_id, stored_company_id) ==
  WriteEvent("get-mvr-lambda", userData, company_id, "GET_MVR")

\* Variant: the seller reported is the requesting company.
ReadEvent_ownSeller(userData, mvrRecord, company_id, stored_company_id) ==
  [operation |-> "GET_MVR", operation_category |-> "READ", success |-> TRUE,
   function_name |-> "get-mvr-lambda", company_id |-> company_id,
   drivers_license_number |-> userData.drivers_license_number,
   mvr_id |-> userData.current_mvr_id, user_id |-> userData.id,
   creator |-> "none", accessor |-> company_id, seller |-> company_id,
   batch_summary |-> batch_summary(<<>>, 0), proc |-> "none"]

\* get-mvr sendAuditLog: the success READ event
ReadEvent(userData, mvrRecord, company_id, stored_company_id) ==
  [operation |-> "GET_MVR", operation_category |-> "READ", success |-> TRUE,
   function_name |-> "get-mvr-lambda", company_id |-> company_id,
   drivers_license_number |-> userData.drivers_license_number,
   mvr_id |-> userData.current_mvr_id, user_id |-> userData.id,
   creator |-> "none", accessor |-> company_id, seller |-> stored_company_id,
   batch_summary |-> batch_summary(<<>>, 0), proc |-> "none"]

\* A call was rejected inside the try block: the catch block sends the
\* failure event.
GetThrown(L) == [L EXCEPT !.pc = "fail_audit", !.dbError = TRUE]

\* A return from inside the try block; finally releases the connection.
GetReturn(L, statusCode, message) ==
  [L EXCEPT !.response = [statusCode |-> statusCode, message |-> message,
                          results |-> <<>>],
            !.released = @ + 1, !.pc = "done"]

Get_Start(p) ==
  /\ AllIdle
  /\ reqCount < MaxReq
  /\ \E c \in Companies, l \in Licenses, d \in Days :
       h' = [h EXCEPT ![p] = [IdleLocals EXCEPT !.pc = "connect", !.kind = "get",
                                !.company_id = c, !.days = d, !.pre = db,
                                !.mvrs = <<[NoUser EXCEPT !.drivers_license_number = l]>>]]
  /\ reqCount' = reqCount + 1
  /\ audit' = <<>>
  /\ UNCHANGED <<db, tx, now, ticks, accepted, pipe>>

\* createDatabasePool / pool.connect, inside the try block; then cutoffDate
Get_connect(p) ==
  /\ h[p].kind = "get" /\ h[p].pc = "connect"
  /\ \E ok \in BOOLEAN :
       h' = [h EXCEPT ![p] = IF ok THEN [@ EXCEPT !.client = TRUE,
                                                 !.cutoffDate = now - h[p].days,
                                                 !.pc = "user_query"]
                                   ELSE GetThrown(@)]
  /\ UNCHANGED <<db, tx, now, ticks, reqCount, audit, accepted, pipe>>

\* userCheckQuery and the two NOT_FOUND returns that follow it
Get_userCheckQuery(p) ==
  /\ h[p].kind = "get" /\ h[p].pc = "user_query"
  /\ LET rows == SelectUsers(db, mvrData(p).drivers_license_number) IN
       \/ h' = [h EXCEPT ![p] = GetThrown(@)]
       \/ /\ rows = {}
          /\ h' = [h EXCEPT ![p] =
                     GetReturn(@, 404, "No user found with this driver's license number")]
       \/ \E u \in rows :
            h' = [h EXCEPT ![p] =
                    IF u.current_mvr_id = 0
                      THEN GetReturn(@, 404, "User found but no MVR ID associated")
                      ELSE [@ EXCEPT !.userData = u,
                                     !.currentMvrId = u.current_mvr_id,
                                     !.pc = "date_check"]]
  /\ UNCHANGED <<db, tx, now, ticks, reqCount, audit, accepted, pipe>>

\* Variant: the freshness check reads report_date alone.
FreshMvr_reportOnly(d, currentMvrId, cutoffDate) ==
  { r \in d.mvr_records : r.id = currentMvrId /\ r.report_date >= cutoffDate }

\* SELECT ... FROM mvr_records WHERE id = $1 AND (report_date >= $2 OR
\* order_date >= $2), with $2 = today - days.  report_date and order_date
\* are written as days ('yyyy-MM-dd') and compared with the cutoff as days.
FreshMvr(d, currentMvrId, cutoffDate) ==
  { r \in d.mvr_records :
      r.id = currentMvrId /\ (r.report_date >= cutoffDate \/ r.order_date >= cutoffDate) }

Get_mvrDateCheckQuery(p) ==
  /\ h[p].kind = "get" /\ h[p].pc = "date_check"
  /\ LET rows == FreshMvr(db, h[p].userData.current_mvr_id, h[p].cutoffDate) IN
       \/ h' = [h EXCEPT ![p] = GetThrown(@)]
       \/ h' = [h EXCEPT ![p] =
                  IF rows = {} THEN GetReturn(@, 404, "No MVR found within the last days")
                               ELSE [@ EXCEPT !.pc = "main_query"]]
  /\ UNCHANGED <<db, tx, now, ticks, reqCount, audit, accepted, pipe>>

\* licenseInfo of the response: userData.license_class ? {...} : null, the
\* column of the LEFT JOIN of drivers_license_info.
licenseInfo(d, mvrId) ==
  \E i \in d.drivers_license_info : i.mvr_id = mvrId /\ "license_class" \in i.fields

\* optimizedQuery: users JOIN mvr_records LEFT JOIN drivers_license_info
\* (the transactions table is never written, its columns are null)
MainResult(d, driversLicense) ==
  { [user |-> u, mvr |-> r,
     licenseInfo |-> licenseInfo(d, r.id)] :
      <<u, r>> \in { x \in d.users \X d.mvr_records :
                       /\ x[1].drivers_license_number = driversLicense
                       /\ x[1].current_mvr_id = x[2].id } }

\* The first query of Promise.all; reading mainResult.rows[0] of an empty
\* result throws.
Get_optimizedQuery(p) ==
  /\ h[p].kind = "get" /\ h[p].pc = "main_query"
  /\ LET rows == MainResult(db, mvrData(p).drivers_license_number) IN
       \/ h' = [h EXCEPT ![p] = GetThrown(@)]
       \/ /\ rows = {}
          /\ h' = [h EXCEPT ![p] = [@ EXCEPT !.pc = "fail_audit"]]
       \/ \E x \in rows :
            h' = [h EXCEPT ![p] =
                    [@ EXCEPT !.userData = x.user,
                              !.mvrRecord = [mvr_id |-> x.mvr.id,
                                             company_id |-> x.mvr.company_id,
                                             licenseInfo |-> x.licenseInfo,
                                             rows |-> <<>>],
                              !.k = 1, !.pc = "child_query"]]
  /\ UNCHANGED <<db, tx, now, ticks, reqCount, audit, accepted, pipe>>

\* users JOIN <child table> ON u.current_mvr_id = mvr_id
ChildRows(d, driversLicense, table) ==
  { c \in d.child :
      /\ c.table = table
      /\ \E u \in d.users : /\ u.drivers_license_number = driversLicense
                            /\ u.current_mvr_id = c.mvr_id }

\* The k-th of the four child queries of Promise.all; after the last one
\* the response is built.
Get_childQuery(p) ==
  /\ h[p].kind = "get" /\ h[p].pc = "child_query"
  /\ LET n == Cardinality(ChildRows(db, mvrData(p).drivers_license_number,
                                    ChildTables[h[p].k])) IN
       \/ h' = [h EXCEPT ![p] = GetThrown(@)]
       \/ h' = [h EXCEPT ![p] =
                  IF h[p].k < Len(ChildTables)
                    THEN [@ EXCEPT !.mvrRecord.rows = Append(@, n), !.k = @ + 1]
                    ELSE [@ EXCEPT !.mvrRecord.rows = Append(@, n),
                                   !.response =
                                      [statusCode |-> 200, message |-> "mvrRecord",
                                       results |-> <<[h[p].mvrRecord EXCEPT
                                                        !.rows = Append(@, n)]>>],
                                   !.pc = "audit"]]
  /\ UNCHANGED <<db, tx, now, ticks, reqCount, audit, accepted, pipe>>

\* Variant: the sink's rejection of the READ event reaches the catch block.
Get_afterPut_propagated(L, ok) ==
  IF L.pc = "audit"
    THEN IF ok THEN [L EXCEPT !.released = @ + 1, !.pc = "done"]
               ELSE [L EXCEPT !.pc = "fail_audit"]
    ELSE [L EXCEPT !.response = [statusCode |-> 500, message |-> "error",
                                 results |-> <<>>],
                   !.released = IF L.client THEN @ + 1 ELSE @, !.pc = "done"]

\* What get-mvr does once firehose.send has settled (ok: the sink accepted).
\* sendAuditLog and sendFailureAuditLog catch and log the rejection; the
\* handler returns the response it had built, or the 500 response, and
\* finally releases the connection if there is one.
Get_afterPut(L, ok) ==
  CASE L.pc = "audit"      -> [L EXCEPT !.released = @ + 1, !.pc = "done"]
    [] L.pc = "fail_audit" -> [L EXCEPT !.response = [statusCode |-> 500,
                                                       message |-> "error",
                                                       results |-> <<>>],
                                         !.released = IF L.client THEN @ + 1 ELSE @,
                                         !.pc = "done"]
    [] OTHER               -> L

Get_sendAuditLog(p) ==
  /\ h[p].kind = "get" /\ h[p].pc = "audit"
  /\ PutRecord(p, ReadEvent(h[p].userData, h[p].mvrRecord, h[p].company_id,
                            h[p].mvrRecord.company_id))
  /\ \E ok \in BOOLEAN : h' = [h EXCEPT ![p] = Get_afterPut(@, ok)]
  /\ UNCHANGED <<db, tx, now, ticks, reqCount, accepted, pipe>>

\* catch: sendFailureAuditLog (company_id and drivers_license_number are
\* set), then the 500 response
Get_sendFailureAuditLog(p) ==
  /\ h[p].kind = "get" /\ h[p].pc = "fail_audit"
  /\ PutRecord(p, FailureEvent("get-mvr-lambda", "READ",
                               mvrData(p).drivers_license_number, h[p].company_id,
                               "GET_MVR_FAILED"))
  /\ \E ok \in BOOLEAN : h' = [h EXCEPT ![p] = Get_afterPut(@, ok)]
  /\ UNCHANGED <<db, tx, now, ticks, reqCount, accepted, pipe>>

\* The handler from the first awaited call on.
GetSteps(p) ==
  \/ Get_connect(p) \/ Get_userCheckQuery(p)
  \/ Get_mvrDateCheckQuery(p) \/ Get_optimizedQuery(p) \/ Get_childQuery(p)
  \/ Get_sendAuditLog(p) \/ Get_sendFailureAuditLog(p)

GetMvr(p) == Get_Start(p) \/ GetSteps(p)

\* ------------------------------------------------------- audit pipeline
\* SubjectRouter transforms the records of IndividualAuditStream and hands
\* retrieval events to MirroringAuditStream; MirrorRouter (mirroring-processor)
\* transforms the records of that stream.  One invocation of a stage
\* transforms one batch of records.  A record's data either parses as JSON
\* (json, with the parsed entry) or does not; its timestamp is a date
\* ("valid") or a string new Date() cannot read ("invalid"); s3_partition
\* tells whether the entry carries the partition AuditPartitioner computes.
\* AuditPartitioner (log-processor) transforms the records of
\* CompanyAuditStream and hands those with a license number to
\* IndividualAuditStream; the repository holds two transformers of that
\* stream, SubjectRouter and the individual-log-processor.

\* The operation names as words; String.includes on them is containment of
\* a run of words.
Words(operation) ==
  CASE operation = "GET_MVR"               -> <<"GET", "MVR">>
    [] operation = "GET_MVR_FAILED"        -> <<"GET", "MVR", "FAILED">>
    [] operation = "CREATE_MVR"            -> <<"CREATE", "MVR">>
    [] operation = "UPDATE_MVR"            -> <<"UPDATE", "MVR">>
    [] operation = "DUPLICATE_MVR_ATTEMPT" -> <<"DUPLICATE", "MVR", "ATTEMPT">>
    [] operation = "CREATE_MVR_FAILED"     -> <<"CREATE", "MVR", "FAILED">>
    [] OTHER                               -> <<operation>>

\* s.includes(t)
Includes(s, t) ==
  \E i \in 1..(Len(s) - Len(t) + 1) : SubSeq(s, i, i + Len(t) - 1) = t

\* new Date(timestamp).toISOString() returns (TRUE) or throws RangeError
ToISOString(timestamp) == timestamp = "valid"

\* date.getFullYear(), getMonth(), getDate(): NaN of an invalid date
GetDate(timestamp) == IF timestamp = "valid" THEN "date" ELSE "NaN"

\* One FirehoseTransformationResultRecord (keys <<>>: no metadata)
ResultRecord(recordId, result, data, keys) ==
  [recordId |-> recordId, result |-> result, data |-> data, partitionKeys |-> keys]

\* SubjectRouter, the body of the loop for one record: the result it pushes;
\* action is raw.action || raw.operation || 'UNKNOWN'.
SubjectRecord(r) ==
  IF ~r.data.json \/ r.data.entry.drivers_license_number = "none"
     \/ ~ToISOString(r.data.timestamp)
    THEN ResultRecord(r.recordId, "ProcessingFailed", r.data, <<>>)
    ELSE ResultRecord(r.recordId, "Ok", r.data,
                      [drivers_license_number |-> r.data.entry.drivers_license_number,
                       action |-> IF r.data.action # "none" THEN r.data.action
                                  ELSE IF r.data.entry.operation # "none"
                                    THEN r.data.entry.operation
                                  ELSE "UNKNOWN",
                       day |-> GetDate(r.data.timestamp)])

\* The characters of the strings that occur as company identifiers.
Chars(str) ==
  CASE str = ""        -> <<>>
    [] str = "a/b c"   -> <<"a", "/", "b", " ", "c">>
    [] str = "a_b_c"   -> <<"a", "_", "b", "_", "c">>
    [] str = "unknown" -> <<"u", "n", "k", "n", "o", "w", "n">>
    [] str = "xxxxxxxxxxxxxxxxxxxxxxxxxxxxxxxxxxxxxxxxxxxxxxxxxxx"
                       -> [i \in 1..51 |-> "x"]
    [] str = "xxxxxxxxxxxxxxxxxxxxxxxxxxxxxxxxxxxxxxxxxxxxxxxxxx"
                       -> [i \in 1..50 |-> "x"]
    [] OTHER           -> <<str>>

\* Variant: the identifier is not cut.
Sanitize_uncut(str) ==
  LET kept == {"a", "b", "c", "k", "n", "o", "u", "w", "x", "A", "B", "1", "_", "-"}
      cs == Chars(str)
      replaced == [i \in 1..Len(cs) |-> IF cs[i] \in kept THEN cs[i] ELSE "_"]
  IN  CHOOSE out \in {"", "A", "B", "1", "_", "a_b_c", "unknown",
                      "xxxxxxxxxxxxxxxxxxxxxxxxxxxxxxxxxxxxxxxxxxxxxxxxxxx"} :
        Chars(out) = replaced

\* String(companyId).replace(/[^a-zA-Z0-9_-]/g, '_').substring(0, 50)
Sanitize(str) ==
  LET kept == {"a", "b", "c", "k", "n", "o", "u", "w", "x", "A", "B", "1", "_", "-"}
      cs == Chars(str)
      replaced == [i \in 1..Len(cs) |-> IF cs[i] \in kept THEN cs[i] ELSE "_"]
      cut == SubSeq(replaced, 1, IF Len(replaced) < 50 THEN Len(replaced) ELSE 50)
  IN  CHOOSE out \in {"", "A", "B", "1", "_", "a_b_c", "unknown",
                      "xxxxxxxxxxxxxxxxxxxxxxxxxxxxxxxxxxxxxxxxxxxxxxxxxx"} :
        Chars(out) = cut

\* generateCompanyS3Partition: the segments of the path company=.../
\* action=.../year=.../month=.../day=...; the template literal writes an
\* undefined action as the text undefined.
generateCompanyS3Partition(companyId, action, day) ==
  <<[company |-> companyId,
     action |-> IF action = "none" THEN "undefined" ELSE action,
     day |-> day]>>

\* processLogEntry of log-processor: the entry with the company id derived
\* (company_id || user_id || 'unknown', sanitized), the operation and the
\* action it wrote, the timestamp it read and the partition it computed.
processLogEntry(data) ==
  LET logEntry == data.entry
      chosen == IF logEntry.company_id \notin {"none", ""} THEN logEntry.company_id
                ELSE IF logEntry.user_id # 0 THEN ToString(logEntry.user_id)
                ELSE "unknown"
      companyId == IF Sanitize(chosen) = "" THEN "unknown" ELSE Sanitize(chosen)
  IN  [data EXCEPT
         !.s3_partition = generateCompanyS3Partition(companyId, logEntry.operation,
                                                     GetDate(data.timestamp)),
         !.action = IF logEntry.operation = "none" THEN "unknown"
                                                   ELSE logEntry.operation,
         !.entry.operation = IF logEntry.operation = "none" THEN "UNKNOWN"
                                                            ELSE logEntry.operation,
         !.entry.company_id = companyId]

\* AuditPartitioner, the body of the loop for one record: the result it pushes.
PartitionRecord(r) ==
  IF ~r.data.json \/ ~ToISOString(r.data.timestamp)
    THEN ResultRecord(r.recordId, "ProcessingFailed", r.data, <<>>)
    ELSE ResultRecord(r.recordId, "Ok", processLogEntry(r.data),
                      [company_id |-> processLogEntry(r.data).entry.company_id,
                       action |-> processLogEntry(r.data).action,
                       day |-> GetDate(r.data.timestamp)])

\* AuditPartitioner calls sendAuditLog for this record.
SentToIndividual(r) ==
  /\ PartitionRecord(r).result = "Ok"
  /\ r.data.entry.drivers_license_number # "none"

\* individual-log-processor, the callback of map for one record
IndividualRecord(r) ==
  IF ~r.data.json \/ r.data.s3_partition = <<>> \/ ~ToISOString(r.data.timestamp)
    THEN ResultRecord(r.recordId, "ProcessingFailed", r.data, <<>>)
    ELSE ResultRecord(r.recordId, "Ok", r.data,
                      [drivers_id |-> "none",
                       action |-> r.data.action,
                       day |-> GetDate(r.data.timestamp)])

\* SubjectRouter calls sendToMirroringStream for this record.
SentToMirroring(r) ==
  /\ SubjectRecord(r).result = "Ok"
  /\ Includes(Words(SubjectRecord(r).partitionKeys.action), <<"GET", "MVR">>)

\* The records MirroringAuditStream holds after SubjectRouter has run over
\* the batch rs, acc being the PutRecord calls the stream accepted.
RECURSIVE Handed(_, _, _)
Handed(rs, acc, i) ==
  IF i > Len(rs) THEN <<>>
  ELSE (IF SentToMirroring(rs[i]) /\ i \in acc THEN <<rs[i].data>> ELSE <<>>)
       \o Handed(rs, acc, i + 1)

\* Variant: a retrieval by the seller itself is mirrored too.
MirrorRecord_selfMirror(r) ==
  IF r.data.json /\ r.data.entry.operation = "GET_MVR" /\ r.data.entry.seller # "none"
    THEN ResultRecord(r.recordId, "Ok",
           [json |-> TRUE, timestamp |-> r.data.timestamp,
            s3_partition |-> r.data.s3_partition,
            entry |-> r.data.entry, mirroring_target |-> "seller",
            target_company_id |-> r.data.entry.seller,
            retrieved_by_company_id |-> r.data.entry.accessor],
           [company_id |-> r.data.entry.seller, action |-> "MVR-RETRIEVED",
            day |-> GetDate(r.data.timestamp)])
    ELSE ResultRecord(r.recordId, "Dropped", r.data, <<>>)

\* Variant: a retrieval that needs no mirror is passed on as an Ok record.
MirrorRecord_forward(r) ==
  IF r.data.json /\ r.data.entry.operation = "GET_MVR" /\ r.data.entry.seller # "none"
     /\ r.data.entry.seller # r.data.entry.accessor
    THEN ResultRecord(r.recordId, "Ok",
           [json |-> TRUE, timestamp |-> r.data.timestamp,
            s3_partition |-> r.data.s3_partition,
            entry |-> r.data.entry, mirroring_target |-> "seller",
            target_company_id |-> r.data.entry.seller,
            retrieved_by_company_id |-> r.data.entry.accessor],
           [company_id |-> r.data.entry.seller, action |-> "MVR-RETRIEVED",
            day |-> GetDate(r.data.timestamp)])
    ELSE ResultRecord(r.recordId, "Ok", r.data, <<>>)

\* MirrorRouter, the body of the loop for one record: the result it pushes.
MirrorRecord(r) ==
  IF ~r.data.json
    THEN ResultRecord(r.recordId, "ProcessingFailed", r.data, <<>>)
  ELSE LET logEntry == r.data.entry
           accessorCompanyId == logEntry.accessor
           sellerCompanyId == logEntry.seller
       IN  IF ~Includes(Words(logEntry.operation), <<"GET", "MVR">>)
             THEN ResultRecord(r.recordId, "Dropped", r.data, <<>>)
           ELSE IF sellerCompanyId = "none"
             THEN ResultRecord(r.recordId, "Dropped", r.data, <<>>)
           ELSE IF accessorCompanyId = sellerCompanyId
             THEN ResultRecord(r.recordId, "Dropped", r.data, <<>>)
           ELSE ResultRecord(r.recordId, "Ok",
                  [json |-> TRUE, timestamp |-> r.data.timestamp,
                   s3_partition |-> r.data.s3_partition,
                   entry |-> logEntry,
                   mirroring_target |-> "seller",
                   target_company_id |-> sellerCompanyId,
                   retrieved_by_company_id |->
                      IF accessorCompanyId # "none" THEN accessorCompanyId
                                                    ELSE "unknown"],
                  [company_id |-> sellerCompanyId, action |-> "MVR-RETRIEVED",
                   day |-> GetDate(r.data.timestamp)])

\* The body of the loop of a stage for one record
TransformRecord(stage, r) ==
  CASE stage = "partition"  -> PartitionRecord(r)
    [] stage = "individual" -> IndividualRecord(r)
    [] stage = "route"      -> SubjectRecord(r)
    [] OTHER                -> MirrorRecord(r)

\* A loop that keeps a flag across its iterations: once a record has
\* failed, the record after it is failed too.
RECURSIVE Output_shared(_, _, _)
Output_shared(stage, records, i) ==
  IF i > Len(records) THEN <<>>
  ELSE <<IF i > 1 /\ TransformRecord(stage, records[i - 1]).result = "ProcessingFailed"
           THEN [TransformRecord(stage, records[i]) EXCEPT !.result = "ProcessingFailed"]
           ELSE TransformRecord(stage, records[i])>>
       \o Output_shared(stage, records, i + 1)

\* The loop of a stage over event.records from the i-th on, try and catch
\* inside the loop: the results it pushes to output, in order
RECURSIVE Output(_, _, _)
Output(stage, records, i) ==
  IF i > Len(records) THEN <<>>
  ELSE <<TransformRecord(stage, records[i])>> \o Output(stage, records, i + 1)

\* The records IndividualAuditStream holds after AuditPartitioner has run
\* over the batch rs, acc being the PutRecord calls the stream accepted.
RECURSIVE Forwarded(_, _, _)
Forwarded(rs, acc, i) ==
  IF i > Len(rs) THEN <<>>
  ELSE (IF SentToIndividual(rs[i]) /\ i \in acc THEN <<processLogEntry(rs[i].data)>>
                                                 ELSE <<>>)
       \o Forwarded(rs, acc, i + 1)

\* The data of the records IndividualAuditStream can hold: retrieval events
\* of every accessor and seller (none: the record has no owning company),
\* a failed retrieval, an ingestion, and a record that does not parse.
PipeUser == [NoUser EXCEPT !.id = 1, !.drivers_license_number = "L1",
                           !.current_mvr_id = 1]

Data(json, timestamp, entry) ==
  [json |-> json, timestamp |-> timestamp, s3_partition |-> <<>>,
   action |-> entry.operation, entry |-> entry]

PipeData ==
  { Data(TRUE, "valid", ReadEvent(PipeUser, NoRecord, a, s)) :
       a \in Companies, s \in Companies \cup {"none"} }
  \cup { Data(TRUE, "valid",
               FailureEvent("get-mvr-lambda", "READ", "L1", "A", "GET_MVR_FAILED")),
         Data(TRUE, "valid", WriteEvent("add-mvr-lambda", PipeUser, "A", "CREATE_MVR")),
         Data(FALSE, "valid", SummaryEvent("none", "none", FALSE, batch_summary(<<>>, 0))) }

\* The data a stream can hold when any producer writes to it: also entries
\* whose timestamp is not a date, an entry without license number, an entry
\* without operation, entries whose company_id is absent, empty, has
\* characters outside [a-zA-Z0-9_-] or is 51 characters long, with and
\* without a user_id, and retrievals of a record whose seller's id has such
\* characters.
StageData ==
  PipeData
    \cup { [d EXCEPT !.timestamp = "invalid"] : d \in { x \in PipeData : x.json } }
    \cup { Data(TRUE, "valid", SummaryEvent("A", "BATCH_PROCESS_COMPLETE", TRUE, batch_summary(<<>>, 6))),
           Data(TRUE, "valid",
                [WriteEvent("add-mvr-lambda", PipeUser, "A", "CREATE_MVR")
                   EXCEPT !.operation = "none"]) }
    \cup { Data(TRUE, "valid",
                [WriteEvent("add-mvr-lambda", PipeUser, "A", "CREATE_MVR")
                   EXCEPT !.company_id = c, !.user_id = u]) :
             c \in {"none", "", "a/b c",
                    "xxxxxxxxxxxxxxxxxxxxxxxxxxxxxxxxxxxxxxxxxxxxxxxxxxx"},
             u \in {0, 1} }
    \cup { Data(TRUE, "valid", ReadEvent(PipeUser, NoRecord, a, "a/b c")) :
             a \in {"A", "a_b_c"} }

\* The stream's records: recordId i for the i-th data of the batch
Records(ds) == [i \in 1..Len(ds) |-> [recordId |-> i, data |-> ds[i]]]

PipeInit ==
  /\ db = EmptyDb
  /\ tx = [p \in Procs |-> EmptyTx]
  /\ now = 0
  /\ ticks = 0
  /\ reqCount = 0
  /\ h = [p \in Procs |-> IdleLocals]
  /\ audit = <<>>
  /\ accepted = [l \in Licenses |-> 0]
  /\ \E b \in UNION { [1..n -> PipeData] : n \in 1..MaxPipeBatch } :
       pipe = [PipeIdle EXCEPT !.stage = "route", !.individual = Records(b)]

\* One invocation of SubjectRouter on the batch of IndividualAuditStream
SubjectRouter ==
  /\ pipe.stage = "route"
  /\ \E acc \in SUBSET { i \in 1..Len(pipe.individual) : SentToMirroring(pipe.individual[i]) } :
       pipe' = [pipe EXCEPT
                  !.subjectOut = Output("route", pipe.individual, 1),
                  !.mirroring = Records(Handed(pipe.individual, acc, 1)),
                  !.stage = "mirror"]
  /\ UNCHANGED <<db, tx, now, ticks, reqCount, h, audit, accepted>>

\* One invocation of MirrorRouter on the batch of MirroringAuditStream
MirrorRouter ==
  /\ pipe.stage = "mirror"
  /\ pipe' = [pipe EXCEPT
                !.mirrorOut = Output("mirror", pipe.mirroring, 1),
                !.stage = "end"]
  /\ UNCHANGED <<db, tx, now, ticks, reqCount, h, audit, accepted>>

PipeNext == SubjectRouter \/ MirrorRouter

PipeSpec == PipeInit /\ [][PipeNext]_vars

\* One invocation of AuditPartitioner on the batch of CompanyAuditStream
AuditPartitioner ==
  /\ pipe.stage = "partition"
  /\ \E acc \in SUBSET { i \in 1..Len(pipe.company) : SentToIndividual(pipe.company[i]) } :
       pipe' = [pipe EXCEPT
                  !.partitionOut = Output("partition", pipe.company, 1),
                  !.individual = Records(Forwarded(pipe.company, acc, 1)),
                  !.stage = "route"]
  /\ UNCHANGED <<db, tx, now, ticks, reqCount, h, audit, accepted>>

\* One invocation of the individual-log-processor on the batch of
\* IndividualAuditStream; it hands nothing on.
IndividualLogProcessor ==
  /\ pipe.stage = "route"
  /\ pipe' = [pipe EXCEPT !.subjectOut = Output("individual", pipe.individual, 1),
                          !.stage = "routed"]
  /\ UNCHANGED <<db, tx, now, ticks, reqCount, h, audit, accepted>>

\* A batch of records, written by any producer, waits on one of the three
\* streams.
StageInit ==
  /\ db = EmptyDb
  /\ tx = [p \in Procs |-> EmptyTx]
  /\ now = 0
  /\ ticks = 0
  /\ reqCount = 0
  /\ h = [p \in Procs |-> IdleLocals]
  /\ audit = <<>>
  /\ accepted = [l \in Licenses |-> 0]
  /\ \E b \in UNION { [1..n -> StageData] : n \in 1..MaxPipeBatch } :
       \/ pipe = [PipeIdle EXCEPT !.stage = "partition", !.company = Records(b)]
       \/ pipe = [PipeIdle EXCEPT !.stage = "route", !.individual = Records(b)]
       \/ pipe = [PipeIdle EXCEPT !.stage = "mirror", !.mirroring = Records(b)]

StageNext == AuditPartitioner \/ IndividualLogProcessor \/ SubjectRouter \/ MirrorRouter

StageSpec == StageInit /\ [][StageNext]_vars

\* ----------------------------------------------------------- validation
\* The validation module and the part of the three handlers that runs
\* before the connection is acquired.  A JSON value is a record: its type
\* (t) and its content as a string (s), a number (n, counted in halves:
\* 60 is 30, 61 is 30.5), a boolean (b), an array of payloads (a) or a
\* payload object (o).
Undefined == [t |-> "undefined", s |-> "", n |-> 0, b |-> FALSE]
Str(str) == [t |-> "string", s |-> str, n |-> 0, b |-> FALSE]
Num(n) == [t |-> "number", s |-> "", n |-> n, b |-> FALSE]
Bool(b) == [t |-> "boolean", s |-> "", n |-> 0, b |-> b]

\* String.prototype.trim and toLowerCase on the strings requests carry
Trim(str) == IF str = " " THEN "" ELSE str

ToLowerCase(str) ==
  CASE str \in {"Other", "OTHER", "other"} -> "other"
    [] str = "A"            -> "a"
    [] str = "B"            -> "b"
    [] str = "L1"           -> "l1"
    [] str = "L2"           -> "l2"
    [] str = "UNDERWRITING" -> "underwriting"
    [] str = "BOGUS"        -> "bogus"
    [] OTHER                -> str

\* One ValidationError: the message is fieldName followed by text, or text
\* alone (field ""), with the two types of a type error.
ValidationError(field, text, expected, received) ==
  [field |-> field, text |-> text, expected |-> expected, received |-> received]

NoValidationError == ValidationError("", "", "", "")

\* The result of a customValidator
Result_valid(valid, message) ==
  [valid |-> valid, message |-> ValidationError("", message, "", "")]

permissiblePurpose(value) ==
  Result_valid(value.t = "string" /\ value.s \in {"EMPLOYMENT", "INSURANCE", "LEGAL", "GOVERNMENT",
                                                 "UNDERWRITING", "FRAUD"},
               "permissible_purpose must be one of: EMPLOYMENT, INSURANCE, LEGAL, GOVERNMENT, UNDERWRITING, FRAUD")

\* Variant: any consent value passes.
consentRequired_any(value) ==
  Result_valid(TRUE, "Consent is required and must be true")

consentRequired(value) ==
  Result_valid(value.t = "boolean" /\ value.b, "Consent is required and must be true")

\* Number(value) of a number is the number; of a boolean 0 or 1
nonNegativeNumber(value) ==
  Result_valid(value.t \in {"number", "boolean"} /\ value.n >= 0,
               "Value must be a non-negative number")

integer(value) ==
  Result_valid(value.t \in {"number", "boolean"} /\ value.n % 2 = 0,
               "Value must be an integer")

nonEmptyArray(value) ==
  Result_valid(value.t = "array" /\ Len(value.a) > 0, "Value must be a non-empty array")

driversLicenseNumber(value) ==
  Result_valid(value.t = "string" /\ Trim(value.s) # "",
               "drivers_license_number must be a non-empty string")

redisclosureAuthorization(value) ==
  Result_valid(value.t = "boolean" /\ value.b,
               "redisclosure_authorization is required and must be true")

\* config.customValidator(value), by the validator's name; days is the
\* validator schemas.getMvr declares in place: integer, then non-negative
validators(name, value) ==
  CASE name = "permissiblePurpose"        -> permissiblePurpose(value)
    [] name = "consentRequired"           -> consentRequired(value)
    [] name = "nonNegativeNumber"         -> nonNegativeNumber(value)
    [] name = "nonEmptyArray"             -> nonEmptyArray(value)
    [] name = "driversLicenseNumber"      -> driversLicenseNumber(value)
    [] name = "redisclosureAuthorization" -> redisclosureAuthorization(value)
    [] name = "days"                      -> IF ~integer(value).valid THEN integer(value)
                                             ELSE nonNegativeNumber(value)
    [] OTHER                              -> Result_valid(TRUE, "")

\* One FieldConfig with its field name; a flag the schema leaves out is
\* undefined (FALSE), type "" and customValidator "" stand for none.
FieldConfig(name, required, allowEmpty, allowOther, type, customValidator) ==
  [name |-> name, required |-> required, allowEmpty |-> allowEmpty,
   allowOther |-> allowOther, type |-> type, customValidator |-> customValidator]

\* A required non-empty string field that must not be 'Other'
RequiredString(name) == FieldConfig(name, TRUE, FALSE, FALSE, "string", "")

\* The schemas, each in declaration order
schemas ==
  [addMvr |->
     << RequiredString("company_id"),
        FieldConfig("permissible_purpose", TRUE, FALSE, FALSE, "string", "permissiblePurpose"),
        FieldConfig("price_paid", TRUE, FALSE, FALSE, "number", "nonNegativeNumber"),
        FieldConfig("redisclosure_authorization", TRUE, FALSE, FALSE, "boolean",
                    "redisclosureAuthorization"),
        FieldConfig("storage_limitations", FALSE, FALSE, FALSE, "number", "nonNegativeNumber") >>,
   addMvrData |->
     << FieldConfig("drivers_license_number", TRUE, FALSE, FALSE, "string",
                    "driversLicenseNumber"),
        RequiredString("full_legal_name"), RequiredString("birthdate"),
        RequiredString("weight"), RequiredString("sex"), RequiredString("height"),
        RequiredString("hair_color"), RequiredString("eye_color"),
        RequiredString("issued_state_code"), RequiredString("state_code") >>,
   getMvr |->
     << FieldConfig("drivers_license_number", TRUE, FALSE, FALSE, "string",
                    "driversLicenseNumber"),
        RequiredString("company_id"),
        FieldConfig("permissible_purpose", TRUE, FALSE, FALSE, "string", "permissiblePurpose"),
        FieldConfig("days", TRUE, FALSE, FALSE, "number", "days"),
        FieldConfig("consent", TRUE, FALSE, FALSE, "boolean", "consentRequired") >>,
   batchAddMvr |->
     << RequiredString("company_id"),
        FieldConfig("permissible_purpose", TRUE, FALSE, FALSE, "string", "permissiblePurpose"),
        FieldConfig("batch_mvrs", TRUE, FALSE, FALSE, "array", "nonEmptyArray") >>]

\* validateField: the first rule the value violates, or no error
validateField(fieldName, value, config) ==
  IF config.required /\ value.t \in {"undefined", "null"}
    THEN ValidationError(fieldName, "is required and cannot be null or undefined", "", "")
  ELSE IF config.required /\ ~config.allowEmpty /\ value.t = "string" /\ Trim(value.s) = ""
    THEN ValidationError(fieldName, "is required and cannot be empty", "", "")
  ELSE IF value.t \in {"undefined", "null"}
    THEN NoValidationError
  ELSE IF ~config.allowOther /\ value.t = "string" /\ ToLowerCase(value.s) = "other"
    THEN ValidationError(fieldName, "cannot be 'Other'. Please provide a valid value", "", "")
  ELSE IF config.type # "" /\ value.t # config.type
    THEN ValidationError(fieldName, "must be of type", config.type, value.t)
  ELSE IF config.customValidator # "" /\ ~validators(config.customValidator, value).valid
    THEN validators(config.customValidator, value).message
  ELSE NoValidationError

\* validateSchema: the errors of the schema's fields from the i-th on, in
\* declaration order
RECURSIVE validateSchema(_, _, _)
validateSchema(data, schema, i) ==
  IF i > Len(schema) THEN <<>>
  ELSE LET error == validateField(schema[i].name, data[schema[i].name], schema[i])
       IN  (IF error # NoValidationError THEN <<error>> ELSE <<>>)
             \o validateSchema(data, schema, i + 1)

\* The HttpError a handler answers with: errors.map(e => e.message).join('; ')
\* is the sequence of the messages; batch-add-mvr puts 'Validation failed
\* for MVR at index i: ' before it.
HttpError(errors) == [prefix |-> "", index |-> 0 - 1, errors |-> errors]

Message(text) == <<ValidationError("", text, "", "")>>

\* Variant: the loop reports the last payload that fails.
ValidateBatch_last(mvrDataArray, i) ==
  LET bad == { j \in 1..Len(mvrDataArray) :
                 validateSchema(mvrDataArray[j], schemas.addMvrData, 1) # <<>> }
  IN  IF bad = {} THEN NoError
      ELSE LET j == CHOOSE x \in bad : \A y \in bad : y <= x
           IN  [prefix |-> "Validation failed for MVR at index", index |-> j - 1,
                errors |-> validateSchema(mvrDataArray[j], schemas.addMvrData, 1)]

\* The for loop of batch-add-mvr over the payloads from the i-th on (the
\* i-th of the model is index i - 1 of the array): the error it throws
RECURSIVE ValidateBatch(_, _)
ValidateBatch(mvrDataArray, i) ==
  IF i > Len(mvrDataArray) THEN NoError
  ELSE LET errors == validateSchema(mvrDataArray[i], schemas.addMvrData, 1)
       IN  IF errors # <<>>
             THEN [prefix |-> "Validation failed for MVR at index", index |-> i - 1,
                   errors |-> errors]
             ELSE ValidateBatch(mvrDataArray, i + 1)

\* The MVR payloads of the requests to validate: the license number, the
\* subject's name, and one value for the eight fields birthdate .. state_code.
MvrObject(dl, name, rest) ==
  [drivers_license_number |-> dl, full_legal_name |-> name, birthdate |-> rest,
   weight |-> rest, sex |-> rest, height |-> rest, hair_color |-> rest,
   eye_color |-> rest, issued_state_code |-> rest, state_code |-> rest]

MvrObjects ==
  { MvrObject(dl, name, rest) :
      dl \in {Str("L1"), Str(""), Undefined},
      name \in {Str("n1"), Str("Other")},
      rest \in {Str("x"), Str("")} }

ValidMvr == MvrObject(Str("L1"), Str("n1"), Str("x"))

\* event.body: missing, not JSON, or the JSON object data
Event(kind, data) == [kind |-> kind, data |-> data]

ValidAddBody ==
  [company_id |-> Str("A"), permissible_purpose |-> Str("UNDERWRITING"),
   price_paid |-> Num(20), redisclosure_authorization |-> Bool(TRUE),
   storage_limitations |-> Undefined, mvr |-> [t |-> "object", o |-> ValidMvr]]

\* body.mvr is absent or a payload object
AddEvents ==
  {Event("missing", ValidAddBody), Event("malformed", ValidAddBody)}
    \cup { Event("json",
                 [company_id |-> c, permissible_purpose |-> pp, price_paid |-> pr,
                  redisclosure_authorization |-> ra, storage_limitations |-> sl,
                  mvr |-> m]) :
             c \in {Str("A"), Str(""), Undefined, Str("Other"), Num(2)},
             pp \in {Str("UNDERWRITING"), Str("Other"), Str("BOGUS"), Undefined},
             pr \in {Num(20), Num(0 - 10), Undefined, Str("A")},
             ra \in {Bool(TRUE), Bool(FALSE), Str("A"), Undefined},
             sl \in {Undefined, Num(0 - 10)},
             m \in {[t |-> "undefined", o |-> ValidMvr]}
                     \cup { [t |-> "object", o |-> o] : o \in MvrObjects } }

ValidBatchBody ==
  [company_id |-> Str("A"), permissible_purpose |-> Str("UNDERWRITING"),
   batch_mvrs |-> [t |-> "array", a |-> <<ValidMvr>>]]

\* body.batch_mvrs is absent or an array of payloads
BatchEvents ==
  {Event("missing", ValidBatchBody), Event("malformed", ValidBatchBody)}
    \cup { Event("json", [company_id |-> c, permissible_purpose |-> pp, batch_mvrs |-> a]) :
             c \in {Str("A"), Str(""), Undefined},
             pp \in {Str("UNDERWRITING"), Str("Other"), Undefined},
             a \in {[t |-> "undefined", a |-> <<>>]}
                     \cup { [t |-> "array", a |-> arr] :
                              arr \in UNION { [1..n -> MvrObjects] : n \in 0..MaxBatch } } }

ValidGetBody ==
  [drivers_license_number |-> Str("L1"), company_id |-> Str("A"),
   permissible_purpose |-> Str("UNDERWRITING"), days |-> Num(2 * THIRTY_DAYS),
   consent |-> Bool(TRUE)]

GetEvents ==
  {Event("missing", ValidGetBody), Event("malformed", ValidGetBody)}
    \cup { Event("json",
                 [drivers_license_number |-> dl, company_id |-> c,
                  permissible_purpose |-> pp, days |-> d, consent |-> k]) :
             dl \in {Str("L1"), Str(""), Undefined},
             c \in {Str("A"), Str(""), Undefined},
             pp \in {Str("UNDERWRITING"), Str("Other"), Undefined},
             d \in {Num(2 * THIRTY_DAYS), Num(0 - 10), Num(2 * THIRTY_DAYS + 1), Undefined},
             k \in {Bool(TRUE), Bool(FALSE), Str("A"), Undefined} }

\* The catch block of the validation try: the 400 response with the message
\* of the error; nothing else has run.
Rejected(L, error) ==
  [L EXCEPT !.response = [statusCode |-> 400, message |-> "error", results |-> <<>>],
            !.errorMessage = error, !.pc = "done"]

\* The payload as the store workflow reads it
Stored(m) ==
  Payload(m.drivers_license_number.s,
          [license |-> {}, rows |-> <<0, 0, 0, 0>>, storage_limitations |-> <<>>],
          <<>>, <<>>)

\* An event arrives at the handler fn ("add", "batch" or "get").
Request(p, fn, event) ==
  /\ h' = [h EXCEPT ![p] = [IdleLocals EXCEPT !.pc = "validate", !.kind = fn,
                              !.body = event, !.pre = db]]
  /\ reqCount' = reqCount + 1
  /\ UNCHANGED <<db, tx, now, ticks, audit, accepted, pipe>>

Add_Request(p) ==
  /\ h[p].pc = "idle" /\ reqCount < MaxReq
  /\ \E event \in AddEvents : Request(p, "add", event)

Batch_Request(p) ==
  /\ h[p].pc = "idle" /\ reqCount < MaxReq
  /\ \E event \in BatchEvents : Request(p, "batch", event)

Get_Request(p) ==
  /\ h[p].pc = "idle" /\ reqCount < MaxReq
  /\ \E event \in GetEvents : Request(p, "get", event)

\* The first try block of a handler: the error it throws for a body that is
\* missing or does not parse
BodyError(event) ==
  CASE event.kind = "missing"   -> HttpError(Message("Missing request body"))
    [] event.kind = "malformed" -> HttpError(Message("SyntaxError"))
    [] OTHER                    -> NoError

\* add-mvr: the top-level fields, then body.mvr, then the payload
Add_validate(p) ==
  /\ h[p].kind = "add" /\ h[p].pc = "validate"
  /\ LET body == h[p].body.data
         top == validateSchema(body, schemas.addMvr, 1)
         mvr == validateSchema(body.mvr.o, schemas.addMvrData, 1)
     IN  h' = [h EXCEPT ![p] =
                 IF BodyError(h[p].body) # NoError THEN Rejected(@, BodyError(h[p].body))
                 ELSE IF top # <<>> THEN Rejected(@, HttpError(top))
                 ELSE IF body.mvr.t = "undefined"
                   THEN Rejected(@, HttpError(Message("mvr data is required")))
                 ELSE IF mvr # <<>> THEN Rejected(@, HttpError(mvr))
                 ELSE [@ EXCEPT !.company_id = body.company_id.s,
                                !.storage_limitations =
                                   StorageLimitations(
                                     IF body.storage_limitations.t = "undefined"
                                       THEN <<>>
                                       ELSE <<body.storage_limitations.n \div 2>>),
                                !.mvrs = <<Stored(body.mvr.o)>>,
                                !.pc = "connect"]]
  /\ UNCHANGED <<db, tx, now, ticks, reqCount, audit, accepted, pipe>>

\* batch-add-mvr: the top-level fields, then the payloads in array order
Batch_validate(p) ==
  /\ h[p].kind = "batch" /\ h[p].pc = "validate"
  /\ LET requestData == h[p].body.data
         top == validateSchema(requestData, schemas.batchAddMvr, 1)
         mvrDataArray == requestData.batch_mvrs.a
     IN  h' = [h EXCEPT ![p] =
                 IF BodyError(h[p].body) # NoError THEN Rejected(@, BodyError(h[p].body))
                 ELSE IF top # <<>> THEN Rejected(@, HttpError(top))
                 ELSE IF ValidateBatch(mvrDataArray, 1) # NoError
                   THEN Rejected(@, ValidateBatch(mvrDataArray, 1))
                 ELSE [@ EXCEPT !.company_id = requestData.company_id.s,
                                !.mvrs = [i \in 1..Len(mvrDataArray) |->
                                            Stored(mvrDataArray[i])],
                                !.pc = "connect"]]
  /\ UNCHANGED <<db, tx, now, ticks, reqCount, audit, accepted, pipe>>

\* get-mvr: the fields of the body
Get_validate(p) ==
  /\ h[p].kind = "get" /\ h[p].pc = "validate"
  /\ LET body == h[p].body.data
         errors == validateSchema(body, schemas.getMvr, 1)
     IN  h' = [h EXCEPT ![p] =
                 IF BodyError(h[p].body) # NoError THEN Rejected(@, BodyError(h[p].body))
                 ELSE IF errors # <<>> THEN Rejected(@, HttpError(errors))
                 ELSE [@ EXCEPT !.company_id = body.company_id.s,
                                !.days = body.days.n \div 2,
                                !.mvrs = <<[NoUser EXCEPT !.drivers_license_number =
                                                            body.drivers_license_number.s]>>,
                                !.pc = "connect"]]
  /\ UNCHANGED <<db, tx, now, ticks, reqCount, audit, accepted, pipe>>

\* One event arrives at one of the handlers, which validates it and, when it
\* is valid, acquires its connection.
ValidNext ==
  \E p \in {"p1"} :
     \/ Add_Request(p) \/ Add_validate(p) \/ Add_connect(p)
     \/ Batch_Request(p) \/ Batch_validate(p) \/ Batch_connect(p)
     \/ Get_Request(p) \/ Get_validate(p) \/ Get_connect(p)

ValidSpec == Init /\ [][ValidNext]_vars

\* ------------------------------------------------------- specification
\* The three handlers against the store; the pipeline is at rest.
Next ==
  \/ Tick
  \/ \E p \in {"p1"} : AddMvr(p) \/ BatchAddMvr(p) \/ GetMvr(p)

Spec == Init /\ [][Next]_vars

\* ------------------------------------------------- concurrent invocations
\* Two requests arrive while the store holds the Subject of L1 with a
\* current record that is 31 days old; the runtime serves each in an
\* invocation of its own, and the steps of the two handlers interleave.  A
\* statement reads the rows committed when it runs and the pending writes of
\* its own connection.
RaceInit ==
  /\ db = SeedDb
  /\ accepted = [l \in Licenses |-> IF l = "L1" THEN 1 ELSE 0]
  /\ tx = [p \in Procs |-> EmptyTx]
  /\ now = THIRTY_DAYS + 1
  /\ ticks = 0
  /\ reqCount = 0
  /\ h = [p \in Procs |-> IdleLocals]
  /\ audit = <<>>
  /\ pipe = PipeIdle

\* An add-mvr request arrives at an invocation that has served none.
Race_AddStart(p) ==
  /\ h[p].pc = "idle"
  /\ \E c \in Companies, m \in MVRData :
       h' = [h EXCEPT ![p] = [IdleLocals EXCEPT !.pc = "connect", !.kind = "add",
                                !.company_id = c, !.mvrs = <<m>>, !.pre = db,
                                !.storage_limitations =
                                   StorageLimitations(m.storage_limitations)]]
  /\ reqCount' = reqCount + 1
  /\ UNCHANGED <<db, tx, now, ticks, audit, accepted, pipe>>

\* A get-mvr request arrives at an invocation that has served none.
Race_GetStart(p) ==
  /\ h[p].pc = "idle"
  /\ \E c \in Companies, l \in Licenses, d \in Days :
       h' = [h EXCEPT ![p] = [IdleLocals EXCEPT !.pc = "connect", !.kind = "get",
                                !.company_id = c, !.days = d, !.pre = db,
                                !.mvrs = <<[NoUser EXCEPT !.drivers_license_number = l]>>]]
  /\ reqCount' = reqCount + 1
  /\ UNCHANGED <<db, tx, now, ticks, audit, accepted, pipe>>

RaceNext ==
  \E p \in Procs :
     Race_AddStart(p) \/ Race_GetStart(p) \/ AddSteps(p) \/ GetSteps(p)

RaceSpec == RaceInit /\ [][RaceNext]_vars

\* =============================================================== claims

\* The Subject rows of a license number.
Subject(d, l) == { u \in d.users : u.drivers_license_number = l }

\* The Subject of l exists and its current MVRRecord was uploaded at most 30
\* days before today.
InWindow(d, l, today) ==
  \E u \in Subject(d, l) :
     \E r \in d.mvr_records :
        r.id = u.current_mvr_id /\ today - r.date_uploaded <= 30

\* The license number of the i-th payload of the request p works on.
LicenseOf(p, i) == h[p].mvrs[i].drivers_license_number

Ingesting(p) == h[p].kind \in {"add", "batch"}

\* The PutRecord calls of p that satisfy a condition on category and success.
Emitted(p, category, success) ==
  { i \in 1..Len(audit) : /\ audit[i].proc = p
                          /\ audit[i].operation_category = category
                          /\ audit[i].success = success }

\* C1 -- Dedup idempotence.  An ingestion for a license number whose Subject
\* has a current MVRRecord uploaded inside the 30-day window when the request
\* arrives leaves the store unchanged: a request made of such payloads only
\* writes nothing (no MVRRecord, no Subject, no child row, committed or
\* pending), and the Subject of such a payload keeps its pointer also when
\* other payloads of the batch are inserted.  Unless a call to the database
\* is rejected, add-mvr answers 200 'MVR uploaded less than 30 days ago' and
\* the batch element gets the SKIPPED result without an MVRRecord.  As the
\* store is unchanged, a repetition inside the window meets the same
\* condition and gets the same result.
C1_DedupIdempotence ==
  \A p \in Procs :
    Ingesting(p) =>
      /\ (\A i \in 1..Len(h[p].mvrs) : InWindow(h[p].pre, LicenseOf(p, i), now))
            => db = h[p].pre /\ tx[p] = EmptyTx
      /\ \A i \in 1..Len(h[p].mvrs) :
            InWindow(h[p].pre, LicenseOf(p, i), now)
              => Subject(View(p), LicenseOf(p, i)) = Subject(h[p].pre, LicenseOf(p, i))
      /\ (/\ h[p].kind = "add" /\ h[p].pc = "done" /\ ~h[p].dbError
          /\ InWindow(h[p].pre, LicenseOf(p, 1), now))
            => /\ h[p].response.statusCode = 200
               /\ h[p].response.message = "MVR uploaded less than 30 days ago"
      /\ h[p].kind = "batch" =>
           \A i \in 1..Len(h[p].results) :
              (InWindow(h[p].pre, LicenseOf(p, i), now) /\ ~h[p].dbError)
                => /\ h[p].results[i].success
                   /\ h[p].results[i].type = "SKIPPED"
                   /\ h[p].results[i].mvr_id = 0

\* A batch that repeats the ingestion of a license number inside the window
\* twice has been answered: both elements SKIPPED.
C1_Witness ==
  \E p \in Procs :
     /\ h[p].kind = "batch" /\ h[p].pc = "done"
     /\ h[p].response.statusCode = 200
     /\ Len(h[p].results) = 2
     /\ \A i \in 1..2 : /\ h[p].results[i].type = "SKIPPED"
                        /\ InWindow(h[p].pre, LicenseOf(p, i), now)
     /\ db = h[p].pre /\ db # EmptyDb

\* C2 -- In every reachable state the current-record pointer of the Subject
\* of a license number references the MVRRecord of the most recently
\* committed ingestion for that license number, and that record is in the
\* committed store; a license number with a committed ingestion has its
\* Subject.  Suppressed and rolled-back ingestions commit no record.
C2_PointerIsLastAccepted ==
  \A l \in Licenses :
     /\ \A u \in Subject(db, l) :
           /\ u.current_mvr_id = accepted[l]
           /\ \E r \in db.mvr_records : r.id = u.current_mvr_id
     /\ accepted[l] # 0 => Subject(db, l) # {}

\* A Subject whose first record was superseded by a second accepted ingestion,
\* after which an ingestion for the same license number was suppressed.
C2_Witness ==
  /\ \E u \in Subject(db, "L1") : u.current_mvr_id = 2 /\ accepted["L1"] = 2
  /\ Cardinality(db.mvr_records) = 2
  /\ \E p \in Procs :
        /\ h[p].kind = "batch" /\ h[p].pc = "done"
        /\ Len(h[p].results) = 2
        /\ h[p].results[1].type = "UPDATED" /\ h[p].results[2].type = "SKIPPED"

\* C3 -- Cascade atomicity.  When a call to the database is rejected during
\* an add-mvr request before its COMMIT has succeeded, then once the catch
\* block has run the committed store equals the store before the request, and
\* no pending write of the request is left on the connection.
C3_CascadeAtomicity ==
  \A p \in Procs :
     (/\ h[p].kind = "add" /\ h[p].dbError /\ h[p].committed = {}
      /\ h[p].pc \in {"fail_audit", "post", "done", "crashed"})
       => db = h[p].pre /\ tx[p] = EmptyTx

\* The second entry of a violations array was rejected after the MVRRecord,
\* the Subject, the LicenseInfo and the first violation had been inserted.
C3_Witness ==
  \E p \in Procs :
     /\ h[p].kind = "add" /\ h[p].pc = "fail_audit"
     /\ h[p].mvrs[1].rows[1] >= 2 /\ LicenseInsert(h[p].mvrs[1]) # <<>>
     /\ h[p].mvrId # 0 /\ h[p].finalUserId # 0 /\ h[p].k = 3
     /\ db = h[p].pre /\ tx[p] = EmptyTx

\* C4 -- Batch ingestion is all-or-nothing: when an element of a batch has
\* failed and the request has ended, the committed store equals the store
\* before the request, nothing is pending, and the request is answered with
\* status 500 and one result per element.
C4_BatchAllOrNothing ==
  \A p \in Procs :
     (/\ h[p].kind = "batch" /\ h[p].pc \in {"done", "crashed"}
      /\ \E i \in 1..Len(h[p].results) : ~h[p].results[i].success)
       => /\ db = h[p].pre /\ tx[p] = EmptyTx
          /\ h[p].response.statusCode = 500
          /\ Len(h[p].response.results) = Len(h[p].mvrs)

\* The state a READ event on MirroringAuditStream puts MirrorRouter in.
NeedsMirror(e) == e.seller # "none" /\ e.seller # e.accessor

\* The results of MirrorRouter that deliver an event for the record i.
Delivered(i) ==
  { j \in 1..Len(pipe.mirrorOut) :
      pipe.mirrorOut[j].recordId = i /\ pipe.mirrorOut[j].result = "Ok" }

\* C5 -- After MirrorRouter has run, every READ event of its batch has
\* exactly one mirrored event if it carries a seller company that differs
\* from the accessor company, and none otherwise; the mirrored event is
\* keyed by the seller's company id and carries target_company_id = seller
\* and retrieved_by_company_id = accessor.
C5_MirrorIffSellerDiffers ==
  pipe.stage = "end" =>
    \A i \in 1..Len(pipe.mirroring) :
       LET e == pipe.mirroring[i].data.entry IN
       e.operation_category = "READ" =>
         IF NeedsMirror(e)
           THEN /\ Cardinality(Delivered(i)) = 1
                /\ \A j \in Delivered(i) :
                      /\ pipe.mirrorOut[j].partitionKeys.company_id = e.seller
                      /\ pipe.mirrorOut[j].data.target_company_id = e.seller
                      /\ pipe.mirrorOut[j].data.retrieved_by_company_id = e.accessor
           ELSE Delivered(i) = {}

\* MirrorRouter has handled a batch with a retrieval by another company and
\* a retrieval by the seller itself.
C5_Witness ==
  /\ pipe.stage = "end"
  /\ \E i, j \in 1..Len(pipe.mirroring) :
        /\ pipe.mirroring[i].data.entry.operation = "GET_MVR"
        /\ NeedsMirror(pipe.mirroring[i].data.entry) /\ Delivered(i) # {}
        /\ pipe.mirroring[j].data.entry.operation = "GET_MVR"
        /\ pipe.mirroring[j].data.entry.seller = pipe.mirroring[j].data.entry.accessor
        /\ Delivered(j) = {}

C7_OneWriteEventPerAccepted ==
  \A p \in Procs :
     (Ingesting(p) /\ h[p].pc \in {"done", "crashed"})
       => \A id \in h[p].committed :
             Cardinality({ i \in Emitted(p, "WRITE", TRUE) : audit[i].mvr_id = id }) = 1

\* C8 -- When a retrieval has ended, it has made exactly one PutRecord of a
\* READ event with success = true if it answers 200 with the aggregate, and
\* none otherwise.
C8_OneReadEventPerRetrieval ==
  \A p \in Procs :
     (h[p].kind = "get" /\ h[p].pc = "done")
       => Cardinality(Emitted(p, "READ", TRUE))
            = IF h[p].response.statusCode = 200 THEN 1 ELSE 0

\* A retrieval has been answered with the aggregate of a record that has a
\* child row.
C8_Witness ==
  \E p \in Procs :
     /\ h[p].kind = "get" /\ h[p].pc = "done"
     /\ h[p].response.statusCode = 200
     /\ \E t \in 1..4 : h[p].mvrRecord.rows[t] > 0
     /\ Emitted(p, "READ", TRUE) # {}

\* C9 -- A request that has been answered with a failure (a status other
\* than 200 and 201) has made a PutRecord of an event with success = false,
\* of category READ for a retrieval and WRITE for an ingestion.
C9_FailureEventOnEveryFailure ==
  \A p \in Procs :
     (/\ h[p].kind \in {"add", "batch", "get"} /\ h[p].pc = "done"
      /\ h[p].response.statusCode \notin {200, 201})
       => Emitted(p, IF h[p].kind = "get" THEN "READ" ELSE "WRITE", FALSE) # {}

\* The handler of p is about to call PutRecord.
Emits(L) ==
  \/ /\ L.kind = "add"
     /\ \/ L.pc \in {"dup_audit", "fail_audit"}
        \/ L.pc = "post" /\ L.operationSuccess /\ L.userData.id # 0
  \/ L.kind = "batch" /\ L.pc \in {"el_audit", "el_catch", "summary", "fail_audit"}
  \/ L.kind = "get" /\ L.pc \in {"audit", "fail_audit"}

\* The handler's locals once the sink has answered.
AfterPut(L, ok) ==
  CASE L.kind = "add"   -> Add_afterPut(L, ok)
    [] L.kind = "batch" -> Batch_afterPut(L, ok)
    [] OTHER            -> Get_afterPut(L, ok)

\* C10 -- Audit emission is best-effort.  In every step in which a handler
\* calls PutRecord, what the handler does next (its position, the response
\* it returns, the results it has collected) is the same whether the sink
\* accepts or rejects the event, and the step changes neither the committed
\* store nor the pending writes: no rejection reaches the caller, rolls the
\* operation back or repeats it.
C10_EmissionIsBestEffort ==
  [][\A p \in Procs :
        (Emits(h[p]) /\ h'[p] # h[p])
          => /\ AfterPut(h[p], TRUE) = AfterPut(h[p], FALSE)
             /\ h'[p] = AfterPut(h[p], TRUE)
             /\ db' = db /\ tx' = tx]_vars

\* A request has ended with a success response after its PutRecord.
C10_Witness ==
  \E p \in Procs :
     /\ h[p].pc = "done" /\ h[p].response.statusCode \in {200, 201}
     /\ Emitted(p, IF h[p].kind = "get" THEN "READ" ELSE "WRITE", TRUE) # {}
     /\ h[p].kind = "batch" => db # h[p].pre

\* C11 (as stated) -- Once the transaction of an ingestion has committed a
\* record, the request is not turned into a failure: the handler does not
\* enter its catch block (no ROLLBACK), sends no success = false WRITE event,
\* and the request ends with the success response.
C11_CommitIsFinal ==
  \A p \in Procs :
     (Ingesting(p) /\ h[p].committed # {})
       => /\ h[p].pc \notin {"catch", "fail_audit", "crashed"}
          /\ Emitted(p, "WRITE", FALSE) = {}
          /\ h[p].pc = "done" => h[p].response.statusCode \in {200, 201}

\* The rows of the child tables the cascade of payload m writes for record id.
ExpectedChild(m, id) ==
  { [table |-> ChildTables[t], mvr_id |-> id, k |-> k] :
      <<t, k>> \in { x \in (1..4) \X (1..MaxRows + 1) : x[2] <= m.rows[x[1]] } }

\* The committed store holds the record id with the whole cascade of payload m.
Complete(d, m, id) ==
  /\ \E r \in d.mvr_records : r.id = id
  /\ { c \in d.child : c.mvr_id = id } = ExpectedChild(m, id)
  /\ LicenseInsert(m) # <<>> <=> \E i \in d.drivers_license_info : i.mvr_id = id

\* The ids of the records a connection has written and not committed.
Pending(p) ==
  { r.id : r \in tx[p].mvr_records }
    \cup { c.mvr_id : c \in tx[p].child }
    \cup { i.mvr_id : i \in tx[p].drivers_license_info }
    \cup { q[2] : q \in tx[p].ptr }

\* C13 -- The pointer is committed together with the record and its cascade.
\* In every committed state the current-record pointer of every Subject
\* references an MVRRecord of the committed store, and never a record a
\* connection is still writing; the records a request has committed are in
\* the committed store with their LicenseInfo row and all the rows of their
\* four child arrays, and no committed row belongs to a record that is still
\* being written.
C13_PointerWithCascade ==
  /\ \A u \in db.users :
        u.current_mvr_id # 0 =>
          /\ \E r \in db.mvr_records : r.id = u.current_mvr_id
          /\ \A p \in Procs : u.current_mvr_id \notin Pending(p)
  /\ \A p \in Procs :
        /\ h[p].kind = "add" =>
              \A id \in h[p].committed : Complete(db, h[p].mvrs[1], id)
        /\ h[p].kind = "batch" =>
              \A i \in 1..Len(h[p].results) :
                 h[p].results[i].mvr_id \in h[p].committed
                   => Complete(db, h[p].mvrs[i], h[p].results[i].mvr_id)
        /\ \A c \in db.child \cup db.drivers_license_info : c.mvr_id \notin Pending(p)

\* An ingestion is in the middle of its cascade for an existing Subject: the
\* record, the pointer update and a child row are pending, the committed
\* pointer still references the previous record.
C13_Witness ==
  \E p \in Procs :
     /\ h[p].kind = "add" /\ h[p].pc = "cascade" /\ h[p].k >= 2
     /\ h[p].userId # 0
     /\ tx[p].ptr # {} /\ tx[p].child # {}
     /\ \E u \in db.users : u.id = h[p].userId /\ u.current_mvr_id # h[p].mvrId

\* The view of the store the duplicate check of the payload at idx reads.
Suppresses(p) ==
  InWindow(View(p), LicenseOf(p, h[p].idx), now)

\* C16 -- The duplicate check at the window boundary.  An ingestion is
\* suppressed if and only if the Subject exists and the upload date of its
\* current MVRRecord is on or after today - 30 days: add-mvr goes to the
\* duplicate path exactly then, and a batch element gets the SKIPPED result
\* exactly then (the check of a batch element reads the store with the
\* writes of the elements before it, as long as the batch is running and not
\* rolled back).  A
\* record uploaded exactly 30 days ago suppresses, one uploaded 31 days ago
\* does not.
C16_WindowBoundary ==
  \A p \in Procs :
     /\ (Ingesting(p) /\ h[p].pc = "create_mvr") => ~Suppresses(p)
     /\ (h[p].kind = "add" /\ h[p].pc = "dup_commit") => Suppresses(p)
     /\ h[p].kind = "batch" =>
          \A i \in 1..Len(h[p].results) :
             (/\ h[p].results[i].type = "SKIPPED"
              /\ h[p].pc \notin {"fail_audit", "crashed", "done"})
               => InWindow(View(p), LicenseOf(p, i), now)
     /\ \A d \in {THIRTY_DAYS, THIRTY_DAYS + 1} :
          (/\ Ingesting(p) /\ h[p].pc \in {"create_mvr", "dup_commit"}
           /\ h[p].kind = "add" \/ h[p].idx = 1
           /\ \E u \in Subject(h[p].pre, LicenseOf(p, h[p].idx)) :
                 \E r \in h[p].pre.mvr_records :
                    r.id = u.current_mvr_id /\ r.date_uploaded = now - d)
            => (h[p].pc = "create_mvr" <=> d = THIRTY_DAYS + 1)

\* An ingestion for a Subject whose current record was uploaded exactly 30
\* days ago has been found a duplicate.
C16_Witness ==
  \E p \in Procs :
     /\ h[p].kind = "add" /\ h[p].pc = "dup_commit"
     /\ \E u \in Subject(db, LicenseOf(p, 1)) :
           \E r \in db.mvr_records :
              r.id = u.current_mvr_id /\ r.date_uploaded = now - THIRTY_DAYS

\* The current MVRRecord of the Subject a retrieval was made for, in the
\* store the retrieval found.
CurrentRecords(p) ==
  { r \in h[p].pre.mvr_records :
      \E u \in Subject(h[p].pre, LicenseOf(p, 1)) : u.current_mvr_id = r.id }

\* The age in days of a date on the day the retrieval of p was made.
Age(p, date) == h[p].cutoffDate + h[p].days - date

\* A retrieval that has been answered without any rejected call.
Answered(p) ==
  /\ h[p].kind = "get" /\ h[p].pc = "done" /\ ~h[p].dbError
  /\ h[p].client

\* C15 (as stated) -- Freshness filter on report_date: the retrieval for a
\* Subject with a current record answers 404 when the report_date is more
\* than days old and 200 with the aggregate when it is at most days old.
C15_AsStated ==
  \A p \in Procs :
     Answered(p) =>
       \A r \in CurrentRecords(p) :
          h[p].response.statusCode
            = IF Age(p, r.report_date) > h[p].days THEN 404 ELSE 200

\* C15 (amended) -- Freshness filter on report_date or order_date: the
\* retrieval for a Subject with a current record answers 404 when both the
\* report_date and the order_date are more than days old, and 200 with the
\* aggregate of that record when either of them is at most days old.
C15_FreshnessFilter ==
  \A p \in Procs :
     Answered(p) =>
       \A r \in CurrentRecords(p) :
          IF Age(p, r.report_date) > h[p].days /\ Age(p, r.order_date) > h[p].days
            THEN /\ h[p].response.statusCode = 404
                 /\ h[p].response.message = "No MVR found within the last days"
            ELSE /\ h[p].response.statusCode = 200
                 /\ h[p].response.results[1].mvr_id = r.id

\* A record whose report_date and order_date are 31 days old has been
\* retrieved with days = 31.
C15_Witness ==
  \E p \in Procs :
     /\ Answered(p) /\ h[p].days = THIRTY_DAYS + 1
     /\ h[p].response.statusCode = 200
     /\ \E r \in CurrentRecords(p) :
           /\ Age(p, r.report_date) = THIRTY_DAYS + 1
           /\ Age(p, r.order_date) = THIRTY_DAYS + 1

\* The add-mvr requests that have committed a record for license number l.
Accepted(l) ==
  { p \in Procs : /\ h[p].kind = "add" /\ LicenseOf(p, 1) = l
                  /\ h[p].committed # {} }

\* C12 -- There is no lock between the duplicate check and the insert.  The
\* duplicate check of an add-mvr request is never made to wait for another
\* request, whatever that request has read or written for the same license
\* number, and neither is its COMMIT; a request that found no recent record
\* goes on to insert although another request for the same license number has
\* committed a record meanwhile, so each of the two commits a record of its
\* own, uploaded today.
C12_NoLockOnDuplicateCheck ==
  /\ \A p \in Procs :
        /\ (h[p].kind = "add" /\ h[p].pc = "check_user")
              => ENABLED Add_checkExistingUser(p)
        /\ (h[p].kind = "add" /\ h[p].pc = "commit") => ENABLED Add_COMMIT(p)
  /\ \A l \in Licenses :
        Cardinality({ r \in db.mvr_records : r.date_uploaded = now
                        /\ \E p \in Accepted(l) : r.id \in h[p].committed })
          = Cardinality(Accepted(l))

\* Two concurrent add-mvr requests for the license number of an existing
\* Subject have both been answered 201: two MVRRecords uploaded today.
C12_Witness ==
  /\ Accepted("L1") = Procs
  /\ \A p \in Procs : h[p].pc = "done" /\ h[p].response.statusCode = 201
                      /\ h[p].userId # 0
  /\ Cardinality({ r \in db.mvr_records : r.date_uploaded = now }) = 2

\* The aggregate of record id as the committed store holds it.
AggregateOf(d, id) ==
  [mvr_id |-> id,
   company_id |-> (CHOOSE r \in d.mvr_records : r.id = id).company_id,
   licenseInfo |-> licenseInfo(d, id),
   rows |-> [t \in 1..4 |->
               Cardinality({ c \in d.child : c.table = ChildTables[t] /\ c.mvr_id = id })]]

\* C14 (as stated) -- A retrieval sees one consistent snapshot: when it has
\* built the 200 response, the aggregate and the seller company of the READ
\* event are those of one MVRRecord, the record that passed the freshness
\* check, also when an ingestion for the same license number commits while
\* the retrieval runs.
C14_ConsistentSnapshot ==
  \A p \in Procs :
     (h[p].kind = "get" /\ h[p].pc \in {"audit", "done"}
        /\ h[p].response.statusCode = 200)
       => /\ h[p].mvrRecord = AggregateOf(db, h[p].currentMvrId)
          /\ h[p].userData.current_mvr_id = h[p].currentMvrId


\* ------------------------------------------------------------------ C17
\* The errors the schemas find in the event of the invocation L, and
\* whether the event fails validation: no body, a body that is not JSON, a
\* retrieval whose consent is not exactly true, an ingestion whose
\* redisclosure_authorization is not exactly true or that has no payload,
\* or any field error.
FieldErrors(L) ==
  LET data == L.body.data IN
  CASE L.kind = "add" ->
         validateSchema(data, schemas.addMvr, 1)
           \o (IF data.mvr.t = "object"
                 THEN validateSchema(data.mvr.o, schemas.addMvrData, 1) ELSE <<>>)
    [] L.kind = "batch" ->
         validateSchema(data, schemas.batchAddMvr, 1)
           \o (IF data.batch_mvrs.t = "array"
                 THEN ValidateBatch(data.batch_mvrs.a, 1).errors ELSE <<>>)
    [] OTHER -> validateSchema(data, schemas.getMvr, 1)

FailsValidation(L) ==
  \/ L.body.kind \in {"missing", "malformed"}
  \/ L.kind = "get" /\ L.body.data.consent # Bool(TRUE)
  \/ L.kind = "add" /\ L.body.data.redisclosure_authorization # Bool(TRUE)
  \/ L.kind = "add" /\ L.body.data.mvr.t # "object"
  \/ FieldErrors(L) # <<>>

Validated(L) == L.body.kind # "none" /\ L.pc \notin {"idle", "validate"}

C17_Answered ==
  \A p \in Procs :
     /\ (Validated(h[p]) /\ FailsValidation(h[p]))
          => /\ h[p].response.statusCode = 400
             /\ h[p].errorMessage.errors # <<>>
     /\ h[p].response.statusCode = 400
          => /\ h[p].pc = "done" /\ ~h[p].client /\ ~h[p].dbError
             /\ db = h[p].pre /\ tx[p] = EmptyTx

C17_Step ==
  \A p \in Procs :
     /\ (h[p].pc = "validate" /\ FailsValidation(h[p]) /\ h'[p] # h[p])
          => h'[p].pc = "done" /\ h'[p].response.statusCode = 400
     /\ (h'[p].response.statusCode = 400 /\ h[p].response.statusCode # 400)
          => h[p].pc = "validate" /\ db' = db /\ tx' = tx
     /\ (h[p].body.kind # "none" /\ h'[p].pc = "connect")
          => h[p].pc \in {"validate", "connect"}
     /\ (h[p].pc = "connect" /\ h[p].body.kind # "none") => ~FailsValidation(h[p])

\* C17: a request of any of the three kinds that fails validation (also a
\* retrieval whose consent is not exactly true and an ingestion whose
\* redisclosure_authorization is not exactly true) is answered with 400 by
\* the validation step itself: the handler never reaches the step that
\* acquires the connection, and the store and the pending writes are as
\* they were.
C17_RejectedBeforeStore == [] C17_Answered /\ [][C17_Step]_vars

\* A retrieval whose only defect is consent false has been answered 400 with
\* the consent message.
C17_Witness ==
  \E p \in Procs :
     /\ h[p].kind = "get" /\ h[p].pc = "done"
     /\ h[p].body = Event("json", [ValidGetBody EXCEPT !.consent = Bool(FALSE)])
     /\ h[p].response.statusCode = 400
     /\ h[p].errorMessage = HttpError(Message("Consent is required and must be true"))
     /\ db = SeedDb

\* ------------------------------------------------------------------ C18
\* C18: the 400 of an ingestion request with a payload carries the errors of
\* the top-level fields followed by the errors of the payload fields, each
\* in schema-declaration order.
C18_ValidationCompleteness ==
  \A p \in Procs :
     (/\ h[p].kind = "add" /\ h[p].pc = "done" /\ h[p].response.statusCode = 400
      /\ h[p].body.kind = "json" /\ h[p].body.data.mvr.t = "object")
       => h[p].errorMessage.errors
            = validateSchema(h[p].body.data, schemas.addMvr, 1)
                \o validateSchema(h[p].body.data.mvr.o, schemas.addMvrData, 1)

\* ------------------------------------------------------------------ C19
\* The indices (from 0) of the payloads of the batch of L that fail
\* per-payload validation
FailingIndices(L) ==
  { i \in 0..(Len(L.body.data.batch_mvrs.a) - 1) :
      validateSchema(L.body.data.batch_mvrs.a[i + 1], schemas.addMvrData, 1) # <<>> }

TopLevelValid(L) ==
  /\ L.kind = "batch" /\ L.body.kind = "json"
  /\ validateSchema(L.body.data, schemas.batchAddMvr, 1) = <<>>

C19_Message ==
  \A p \in Procs :
     (Validated(h[p]) /\ TopLevelValid(h[p]) /\ FailingIndices(h[p]) # {})
       => LET i == CHOOSE x \in FailingIndices(h[p]) :
                     \A y \in FailingIndices(h[p]) : x <= y
          IN  /\ h[p].pc = "done" /\ h[p].response.statusCode = 400
              /\ h[p].errorMessage.prefix = "Validation failed for MVR at index"
              /\ h[p].errorMessage.index = i
              /\ h[p].errorMessage.errors
                   = validateSchema(h[p].body.data.batch_mvrs.a[i + 1], schemas.addMvrData, 1)
              /\ db = h[p].pre /\ tx[p] = EmptyTx /\ ~h[p].dbError

C19_Step ==
  \A p \in Procs :
     (h[p].pc = "validate" /\ TopLevelValid(h[p]) /\ FailingIndices(h[p]) # {}
        /\ h'[p] # h[p])
       => h'[p].pc = "done" /\ db' = db /\ tx' = tx

\* C19: a batch with valid top-level fields in which some payload fails
\* validation is answered 400 with the single message 'Validation failed
\* for MVR at index i' followed by the field errors of payload i, i the
\* smallest failing index counted from 0; the validation step answers, so
\* no transaction is begun and no row of any element is written.
C19_BatchIndexing == [] C19_Message /\ [][C19_Step]_vars

\* The batch of Test 3.6: two payloads, the second without license number.
C19_Witness ==
  \E p \in Procs :
     /\ h[p].kind = "batch" /\ h[p].pc = "done"
     /\ h[p].body.data.batch_mvrs.a
          = <<ValidMvr, MvrObject(Undefined, Str("n1"), Str("x"))>>
     /\ TopLevelValid(h[p])
     /\ h[p].response.statusCode = 400
     /\ h[p].errorMessage
          = [prefix |-> "Validation failed for MVR at index", index |-> 1,
             errors |-> <<ValidationError("drivers_license_number",
                            "is required and cannot be null or undefined", "", "")>>]


\* ------------------------------------------------------------------ C20
\* A record no stage can read: data that does not parse, or a timestamp
\* that is not a date.
Malformed(data) == ~data.json \/ data.timestamp = "invalid"

\* The stages that have run, each with the batch it was given and the
\* results it returned.
StagesRun ==
  (IF pipe.stage # "partition"
     THEN {[stage |-> "partition", records |-> pipe.company, output |-> pipe.partitionOut]}
     ELSE {})
  \cup (IF pipe.stage \in {"mirror", "end"}
          THEN {[stage |-> "route", records |-> pipe.individual, output |-> pipe.subjectOut]}
          ELSE {})
  \cup (IF pipe.stage = "routed"
          THEN {[stage |-> "individual", records |-> pipe.individual,
                 output |-> pipe.subjectOut]}
          ELSE {})
  \cup (IF pipe.stage = "end"
          THEN {[stage |-> "mirror", records |-> pipe.mirroring, output |-> pipe.mirrorOut]}
          ELSE {})

\* The i-th record of the run x gets the result the claim describes.
PerRecord(x, i) ==
  /\ x.output[i].recordId = x.records[i].recordId
  /\ Malformed(x.records[i].data)
       => /\ x.output[i].result = "ProcessingFailed"
          /\ x.output[i].data = x.records[i].data
  /\ x.output[i] = Output(x.stage, <<x.records[i]>>, 1)[1]

\* C20: a stage that has run has returned one result per record of its
\* batch, with the record's recordId; a record whose data does not parse or
\* whose timestamp is not a date is ProcessingFailed with its original
\* data, and every record has the result the stage returns for the batch of
\* that record alone.
C20_PerRecordFailures ==
  \A x \in StagesRun :
     /\ Len(x.output) = Len(x.records)
     /\ \A i \in 1..Len(x.records) : PerRecord(x, i)

\* What holds of every stage: one result per record with the record's
\* recordId, and, MirrorRouter on data that parses apart, the result
\* described above for every record.
C20_ExceptMirrorTimestamp ==
  \A x \in StagesRun :
     /\ Len(x.output) = Len(x.records)
     /\ \A i \in 1..Len(x.records) :
          (x.stage = "mirror" /\ x.records[i].data.json) \/ PerRecord(x, i)


\* ------------------------------------------------------------------ C21
\* The invocation p has emitted an event with success = false.
FailureEmitted(p) ==
  \E i \in 1..Len(audit) : audit[i].proc = p /\ ~audit[i].success

\* C21: an ingestion or retrieval in which a call to the database was
\* rejected ends by returning a response, which is 500, with nothing
\* pending and nothing committed, a success = false event emitted, and its
\* connection, if it got one, released exactly once.
C21_PersistenceError ==
  \A p \in Procs :
     (h[p].dbError /\ h[p].pc \in {"done", "crashed"})
       => /\ h[p].pc = "done"
          /\ h[p].response.statusCode = 500
          /\ tx[p] = EmptyTx /\ db = h[p].pre
          /\ FailureEmitted(p)
          /\ h[p].released = IF h[p].kind = "get" /\ ~h[p].client THEN 0 ELSE 1


\* ------------------------------------------------------------------ C22
\* The batch-level events the invocation p has emitted
SummaryEvents(p) ==
  { i \in 1..Len(audit) :
      /\ audit[i].proc = p
      /\ audit[i].operation \in {"BATCH_PROCESS_COMPLETE", "BATCH_PROCESS_FAILED"} }

\* The number of results of p of the given type
ResultsOfType(p, type) ==
  Cardinality({ i \in 1..Len(h[p].results) : h[p].results[i].type = type })

\* The counts of the event e are those of the results of p.
CountsResults(p, e) ==
  /\ e.total_records = Len(h[p].results)
  /\ e.new_users = ResultsOfType(p, "NEW")
  /\ e.updated_users = ResultsOfType(p, "UPDATED")
  /\ e.skipped_records = ResultsOfType(p, "SKIPPED")
  /\ e.failed_records = ResultsOfType(p, "ERROR")
  /\ e.total_records = e.new_users + e.updated_users + e.skipped_records + e.failed_records
  /\ e.successful_records = e.new_users + e.updated_users + e.skipped_records

\* C22: a batch that has ended, committed or rolled back, has emitted
\* exactly one batch-level event, whose total / new / updated / skipped /
\* failed counts are the numbers of per-element results of each type, with
\* total = new + updated + skipped + failed and successful = new + updated
\* + skipped.
C22_OneBatchSummary ==
  \A p \in Procs :
     (h[p].kind = "batch" /\ h[p].pc \in {"done", "crashed"})
       => /\ Cardinality(SummaryEvents(p)) = 1
          /\ \A i \in SummaryEvents(p) : CountsResults(p, audit[i].batch_summary)

\* The same of the batches that have returned a response.
C22_Answered ==
  \A p \in Procs :
     (h[p].kind = "batch" /\ h[p].pc = "done")
       => /\ Cardinality(SummaryEvents(p)) = 1
          /\ \A i \in SummaryEvents(p) : CountsResults(p, audit[i].batch_summary)

\* The same of the batches that have committed.
C22_Committed ==
  \A p \in Procs :
     (h[p].kind = "batch" /\ h[p].pc = "done" /\ h[p].response.statusCode = 200)
       => /\ Cardinality(SummaryEvents(p)) = 1
          /\ \A i \in SummaryEvents(p) : CountsResults(p, audit[i].batch_summary)

\* ------------------------------------------------------------------ C23
\* The MVRRecords the finished invocation p inserted and committed, each with
\* the storage_limitations its request supplied (<<>>: none).
Ingested(p) ==
  IF h[p].pc # "done" \/ h[p].response.statusCode \notin {200, 201} THEN {}
  ELSE IF h[p].kind = "add"
    THEN { [row |-> r, supplied |-> h[p].mvrs[1].storage_limitations] :
             r \in { x \in db.mvr_records : x.id = h[p].mvrId } }
  ELSE IF h[p].kind = "batch"
    THEN UNION { { [row |-> r, supplied |-> h[p].mvrs[i].storage_limitations] :
                     r \in { x \in db.mvr_records :
                               /\ h[p].results[i].type \in {"NEW", "UPDATED"}
                               /\ x.id = h[p].results[i].mvr_id } } :
                 i \in 1..Len(h[p].results) }
  ELSE {}

\* C23: the storage_limitations persisted on an accepted MVRRecord is the
\* supplied value when that is a non-negative number, 0 included, and 1825
\* when it is unspecified or negative, through add-mvr and through
\* batch-add-mvr alike.
C23_StorageLimitations ==
  \A p \in Procs : \A x \in Ingested(p) :
    x.row.storage_limitations =
      IF x.supplied # <<>> /\ x.supplied[1] >= 0 THEN x.supplied[1] ELSE 1825

\* The part of C23 that holds: a positive supplied value is persisted as it
\* is, and add-mvr persists 1825 when none is supplied.
C23_PositiveOrAddDefault ==
  \A p \in Procs : \A x \in Ingested(p) :
    /\ x.supplied # <<>> /\ x.supplied[1] > 0
         => x.row.storage_limitations = x.supplied[1]
    /\ x.supplied = <<>> /\ h[p].kind = "add" => x.row.storage_limitations = 1825

\* add-mvr persists 5 for a supplied 0.
C23_AddZero ==
  \A p \in Procs : \A x \in Ingested(p) :
    x.supplied = <<0>> /\ h[p].kind = "add" => x.row.storage_limitations = 0

\* batch-add-mvr persists 5 when no value is supplied.
C23_BatchDefault ==
  \A p \in Procs : \A x \in Ingested(p) :
    x.supplied = <<>> /\ h[p].kind = "batch" => x.row.storage_limitations = 1825

\* ------------------------------------------------------------------ C24
\* The payloads before the i-th of the request of p that inserted a record
\* for the same license number.
InsertedBefore(p, i) ==
  { j \in 1..(i - 1) : /\ LicenseOf(p, j) = LicenseOf(p, i)
                       /\ h[p].results[j].mvr_id # 0 }

\* A Subject existed for the license number of the i-th payload when it was
\* checked: in the store the request found, or created by a payload before.
Existed(p, i) ==
  Subject(h[p].pre, LicenseOf(p, i)) # {} \/ InsertedBefore(p, i) # {}

\* ... and its current record was inside the window: the one the request
\* found, or the one the last payload before it inserted.
Recent(p, i) ==
  IF InsertedBefore(p, i) = {} THEN InWindow(h[p].pre, LicenseOf(p, i), now)
  ELSE LET j == CHOOSE j \in InsertedBefore(p, i) :
                   \A k \in InsertedBefore(p, i) : k <= j
       IN  \E r \in db.mvr_records :
              r.id = h[p].results[j].mvr_id /\ now - r.date_uploaded <= 30

\* The tag the i-th payload of p got: the BatchProcessResultType of the
\* batch result; for add-mvr the operation type, as the tag of that name.
Tag(p, i) ==
  IF h[p].kind = "batch" THEN h[p].results[i].type
  ELSE CASE h[p].operationType = "DUPLICATE_MVR_ATTEMPT" /\ h[p].response.statusCode = 200
              -> "SKIPPED"
         [] h[p].operationType = "CREATE_MVR" /\ h[p].response.statusCode = 201 -> "NEW"
         [] h[p].operationType = "UPDATE_MVR" /\ h[p].response.statusCode = 201
              -> "UPDATED"
         [] OTHER -> "none"

\* The ingestion p has answered with success.
Succeeded(p) ==
  /\ Ingesting(p) /\ h[p].pc = "done"
  /\ h[p].response.statusCode \in {200, 201}

Classified(p) ==
  Succeeded(p) =>
    /\ h[p].kind = "batch" => Len(h[p].results) = Len(h[p].mvrs)
    /\ \A i \in 1..Len(h[p].mvrs) :
         /\ Tag(p, i) \in {"SKIPPED", "NEW", "UPDATED"}
         /\ Tag(p, i) = "SKIPPED" <=> (Existed(p, i) /\ Recent(p, i))
         /\ Tag(p, i) = "NEW"     <=> ~Existed(p, i)
         /\ Tag(p, i) = "UPDATED" <=> (Existed(p, i) /\ ~Recent(p, i))
    /\ \A e \in Emitted(p, "WRITE", TRUE) :
         audit[e].operation \in
           { "DUPLICATE_MVR_ATTEMPT", "CREATE_MVR", "UPDATE_MVR",
             "BATCH_CREATE_MVR", "BATCH_UPDATE_MVR", "BATCH_PROCESS_COMPLETE" }
    /\ h[p].kind = "add" =>
         \A e \in Emitted(p, "WRITE", TRUE) : audit[e].operation = h[p].operationType

\* C24: result classification.  When an ingestion answers with success, each
\* of its payloads has exactly one tag: SKIPPED (add-mvr: status 200,
\* DUPLICATE_MVR_ATTEMPT) iff the Subject existed at the check and its
\* current record was inside the window; NEW (add-mvr: status 201,
\* CREATE_MVR) iff no Subject existed for the license number at the check;
\* UPDATED (add-mvr: status 201, UPDATE_MVR) iff a Subject existed and was
\* not suppressed.
C24_ResultClassification ==
  [][\A p \in Procs : h[p].pc # "done" => Classified(p)']_vars

\* A batch has answered with success whose second payload was tagged UPDATED
\* after the first one created the Subject with a record outside the window.
C24_Witness ==
  \E p \in Procs :
     /\ Succeeded(p)
     /\ h[p].kind = "batch" /\ Len(h[p].results) = 2
     /\ h[p].results[1].type = "NEW" /\ h[p].results[2].type = "UPDATED"

\* ------------------------------------------------------------------ C25
\* The success WRITE events of created or updated records that handler fn
\* has emitted.
IngestEvents(fn) ==
  { i \in 1..Len(audit) :
      /\ audit[i].function_name = fn
      /\ audit[i].operation_category = "WRITE" /\ audit[i].success
      /\ audit[i].operation \in {"CREATE_MVR", "UPDATE_MVR",
                                  "BATCH_CREATE_MVR", "BATCH_UPDATE_MVR"} }

IsCommitted(i) == \E r \in db.mvr_records : r.id = audit[i].mvr_id

\* C25: audit hand-off happens after commit.  Every success WRITE event of
\* a created or updated MVRRecord, from add-mvr or for a batch element, is
\* emitted when the record is committed, so none exists for a record that
\* was rolled back.
C25_HandOffAfterCommit ==
  \A i \in IngestEvents("add-mvr-lambda") \cup IngestEvents("batch-add-mvr-lambda") :
     IsCommitted(i)

\* The part of C25 that holds: the events of add-mvr.
C25_AddMvr == \A i \in IngestEvents("add-mvr-lambda") : IsCommitted(i)

\* No success WRITE event remains for a record of a batch that has answered
\* after its rollback.
C25_NoneAfterRollback ==
  \A p \in Procs :
     (h[p].kind = "batch" /\ h[p].pc = "done" /\ h[p].response.statusCode = 500)
       => \A i \in IngestEvents("batch-add-mvr-lambda") : IsCommitted(i)

\* ------------------------------------------------------------------ C26
\* The success READ events in the sink.
ReadEvents ==
  { i \in 1..Len(audit) : audit[i].operation_category = "READ" /\ audit[i].success }

\* The READ event i names the requesting company as accessor and, as seller,
\* the company that owns the Subject's current MVRRecord.
SellerIsOwner(i) ==
  /\ audit[i].accessor = h[audit[i].proc].company_id
  /\ \E u \in db.users : \E r \in db.mvr_records :
        /\ u.drivers_license_number = audit[i].drivers_license_number
        /\ r.id = u.current_mvr_id /\ r.id = audit[i].mvr_id
        /\ audit[i].seller = r.company_id

\* A record enters the store with the company of the ingestion that commits
\* it as its owner, and no step changes or removes a stored record: not a
\* suppressed duplicate of another company either.
OwnerIsCreator ==
  /\ db.mvr_records \subseteq db'.mvr_records
  /\ \A r \in db'.mvr_records \ db.mvr_records :
        \E p \in Procs : /\ Ingesting(p) /\ h[p].pc = "commit"
                         /\ r.company_id = h[p].company_id
  /\ \A p \in Procs :
        (h[p].kind = "add" /\ h[p].pc = "dup_commit") => db' = db

\* C26: seller identity end to end.  The READ event of a successful
\* retrieval carries the retrieving company as accessor and the company
\* whose accepted ingestion created the Subject's current MVRRecord as
\* seller; a suppressed duplicate of another company in between changes
\* neither the record's owner nor the seller reported.
C26_SellerIdentity ==
  [](\A i \in ReadEvents : SellerIsOwner(i)) /\ [][OwnerIsCreator]_vars

\* Company B has retrieved, as the second request, the record company A
\* ingested.
C26_Witness ==
  /\ reqCount = 2
  /\ \E i \in ReadEvents :
       /\ h[audit[i].proc].pc = "done" /\ h[audit[i].proc].response.statusCode = 200
       /\ audit[i].accessor = "B" /\ audit[i].seller = "A"
       /\ \E r \in db.mvr_records : r.id = audit[i].mvr_id /\ r.company_id = "A"

\* ------------------------------------------------------------------ C27
\* The characters [A-Za-z0-9_-].
Restricted ==
  {"a", "b", "c", "d", "e", "f", "g", "h", "i", "j", "k", "l", "m", "n", "o", "p",
   "q", "r", "s", "t", "u", "v", "w", "x", "y", "z",
   "A", "B", "C", "D", "E", "F", "G", "H", "I", "J", "K", "L", "M", "N", "O", "P",
   "Q", "R", "S", "T", "U", "V", "W", "X", "Y", "Z",
   "0", "1", "2", "3", "4", "5", "6", "7", "8", "9", "_", "-"}

\* id is the sanitized form of the identifier from: the first 50 characters,
\* those outside the restricted set replaced by an underscore.
SanitizedFrom(id, from) ==
  /\ Len(Chars(id)) = IF Len(Chars(from)) < 50 THEN Len(Chars(from)) ELSE 50
  /\ \A k \in 1..Len(Chars(id)) :
        Chars(id)[k] = IF Chars(from)[k] \in Restricted THEN Chars(from)[k] ELSE "_"

\* AuditPartitioner has run; the records of its batch it answered with Ok.
Partitioned ==
  IF pipe.company # <<>> /\ pipe.stage # "partition"
    THEN { i \in 1..Len(pipe.company) : pipe.partitionOut[i].result = "Ok" }
    ELSE {}

\* C27: for every record AuditPartitioner emits, the company identifier is
\* derived by the chain company_id, else user_id, else the literal unknown;
\* the sanitized identifier is non-empty, at most 50 characters long and
\* consists only of [A-Za-z0-9_-]; and the partition key of an event that
\* carries an operation is company=<id>/action=<op>/year/month/day with the
\* sanitized identifier, the event's operation and the date parts of the
\* event's timestamp.
C27_PartitionKey ==
  \A i \in Partitioned :
     LET raw == pipe.company[i].data
         out == pipe.partitionOut[i]
         id  == out.partitionKeys.company_id
     IN  /\ IF raw.entry.company_id \notin {"none", ""}
               THEN SanitizedFrom(id, raw.entry.company_id)
             ELSE IF raw.entry.user_id # 0
               THEN id = ToString(raw.entry.user_id)
             ELSE id = "unknown"
         /\ Chars(id) # <<>> /\ Len(Chars(id)) <= 50
         /\ \A k \in 1..Len(Chars(id)) : Chars(id)[k] \in Restricted
         /\ out.data.entry.company_id = id
         /\ raw.entry.operation # "none" =>
              /\ out.data.s3_partition =
                   <<[company |-> id, action |-> raw.entry.operation,
                      day |-> GetDate(raw.timestamp)]>>
              /\ out.partitionKeys =
                   [company_id |-> id, action |-> raw.entry.operation,
                    day |-> GetDate(raw.timestamp)]

\* AuditPartitioner has emitted a record whose company_id had characters
\* outside the restricted set and one whose company_id was 51 characters long.
C27_Witness ==
  /\ Partitioned = {1, 2}
  /\ pipe.company[1].data.entry.company_id = "a/b c"
  /\ pipe.partitionOut[1].partitionKeys.company_id = "a_b_c"
  /\ Len(Chars(pipe.company[2].data.entry.company_id)) = 51
  /\ Len(Chars(pipe.partitionOut[2].partitionKeys.company_id)) = 50

\* ------------------------------------------------------------------ C28
\* No partition key can be derived from the data of a record: it does not
\* parse, its timestamp is no date, or it carries no operation.
Underivable(data) ==
  ~data.json \/ ~ToISOString(data.timestamp) \/ data.entry.operation = "none"

\* AuditPartitioner has answered for every record of its batch, in order.
NoneDropped ==
  (pipe.company # <<>> /\ pipe.stage # "partition") =>
     /\ Len(pipe.partitionOut) = Len(pipe.company)
     /\ \A i \in 1..Len(pipe.company) :
          /\ pipe.partitionOut[i].recordId = pipe.company[i].recordId
          /\ pipe.partitionOut[i].result \in {"Ok", "ProcessingFailed"}

\* C28: AuditPartitioner reports an event from which no partition key can
\* be derived, for example one without operation, as ProcessingFailed; it
\* never emits it as Ok with an underivable key segment and never drops it.
C28_UnderivableKeyFails ==
  /\ NoneDropped
  /\ (pipe.company # <<>> /\ pipe.stage # "partition") =>
       \A i \in 1..Len(pipe.company) :
          Underivable(pipe.company[i].data)
            => pipe.partitionOut[i].result = "ProcessingFailed"

\* The part of C28 that holds: no record is dropped, and a record that does
\* not parse or whose timestamp is no date is reported as ProcessingFailed.
C28_ExceptOperation ==
  /\ NoneDropped
  /\ (pipe.company # <<>> /\ pipe.stage # "partition") =>
       \A i \in 1..Len(pipe.company) :
          (~pipe.company[i].data.json \/ ~ToISOString(pipe.company[i].data.timestamp))
            => pipe.partitionOut[i].result = "ProcessingFailed"

\* ------------------------------------------------------------------ C29
\* The runs of SubjectRouter, in either of its two versions.
RouterRuns == { x \in StagesRun : x.stage \in {"route", "individual"} }

\* The subject identifier among the partition keys of a result.
SubjectKey(keys) ==
  IF "drivers_license_number" \in DOMAIN keys THEN keys.drivers_license_number
                                             ELSE keys.drivers_id

\* The i-th record of the run x of SubjectRouter: failed iff it lacks the
\* partition marker or is malformed, else re-keyed by the license number,
\* the action and the date of its timestamp, with its data unchanged.
Routed(x, i) ==
  LET data == x.records[i].data
      out  == x.output[i]
  IN  /\ out.result \in {"Ok", "ProcessingFailed"}
      /\ out.result = "ProcessingFailed" <=> (data.s3_partition = <<>> \/ Malformed(data))
      /\ out.result = "Ok" =>
           /\ SubjectKey(out.partitionKeys) # "none"
           /\ SubjectKey(out.partitionKeys) = data.entry.drivers_license_number
           /\ out.partitionKeys.action = data.action
           /\ out.partitionKeys.day = GetDate(data.timestamp)
           /\ out.data = data

\* C29: SubjectRouter marks a record ProcessingFailed if and only if it
\* lacks the partition marker s3_partition or is malformed; every record it
\* emits as Ok is re-keyed by the license number of the event, the action
\* and the date parts of the timestamp, and its data is passed through.
C29_SubjectRouter ==
  \A x \in RouterRuns : \A i \in 1..Len(x.records) : Routed(x, i)

\* C29 for the version that forwards to MirroringAuditStream.
C29_Router == \A x \in RouterRuns : x.stage = "route" =>
                 \A i \in 1..Len(x.records) : Routed(x, i)

\* C29 for the individual-log-processor.
C29_IndividualLogProcessor ==
  \A x \in RouterRuns : x.stage = "individual" =>
     \A i \in 1..Len(x.records) : Routed(x, i)

\* C29 for the records AuditPartitioner forwarded, routed by the version
\* that forwards to MirroringAuditStream.
C29_RouterAfterPartitioner ==
  \A x \in RouterRuns : (x.stage = "route" /\ pipe.company # <<>>) =>
     \A i \in 1..Len(x.records) : Routed(x, i)

\* ------------------------------------------------------------------ C30
\* A step of AuditPartitioner or of SubjectRouter returns one result per
\* record of its batch.
OneResultPerRecord ==
  /\ pipe.stage = "partition" => Len(pipe'.partitionOut) = Len(pipe.company)
  /\ pipe.stage = "route" => Len(pipe'.subjectOut) = Len(pipe.individual)

\* ... and writes to no stream.
NoCopy ==
  pipe.stage \in {"partition", "route"} =>
     /\ pipe'.company = pipe.company
     /\ pipe'.individual = pipe.individual
     /\ pipe'.mirroring = pipe.mirroring

\* C30: AuditPartitioner and SubjectRouter are 1:1: each returns exactly one
\* downstream event per input event and sends no additional copy of an
\* event to any other stream.
C30_OneToOne == [][OneResultPerRecord /\ NoCopy]_vars

\* The part of C30 that holds: one result per record.
C30_OneResult == [][OneResultPerRecord]_vars

\* ------------------------------------------------------------------ C31
\* The payloads of the finished, successful ingestion p for which it
\* committed a new MVRRecord, each with the id of that record.
Created(p) ==
  IF ~Succeeded(p) THEN {}
  ELSE IF h[p].kind = "add"
    THEN (IF h[p].mvrId # 0 THEN {[m |-> h[p].mvrs[1], id |-> h[p].mvrId]} ELSE {})
  ELSE { [m |-> h[p].mvrs[i], id |-> h[p].results[i].mvr_id] :
           i \in { j \in 1..Len(h[p].results) : h[p].results[j].mvr_id # 0 } }

LicenseRows(id) == { i \in db.drivers_license_info : i.mvr_id = id }

\* C31: an accepted ingestion creates a LicenseInfo row for the new
\* MVRRecord if and only if at least one of license_class, issue_date,
\* expiration_date, status, restrictions was supplied, and never more than
\* one.
C31_LicenseInfoIffSupplied ==
  \A p \in Procs : \A c \in Created(p) :
     /\ LicenseRows(c.id) # {} <=> c.m.license # {}
     /\ Cardinality(LicenseRows(c.id)) <= 1

\* The part of C31 that holds: no row when no license field was supplied, a
\* row when license_class, issue_date or expiration_date was, and never
\* more than one.
C31_ThreeFields ==
  \A p \in Procs : \A c \in Created(p) :
     /\ c.m.license = {} => LicenseRows(c.id) = {}
     /\ c.m.license \cap {"license_class", "issue_date", "expiration_date"} # {}
          => LicenseRows(c.id) # {}
     /\ Cardinality(LicenseRows(c.id)) <= 1

\* ------------------------------------------------------------------ C32
\* The rows of the store that belong to the MVRRecord id.
Aggregate(d, id) ==
  [record   |-> { r \in d.mvr_records : r.id = id },
   license  |-> { i \in d.drivers_license_info : i.mvr_id = id },
   children |-> { c \in d.child : c.mvr_id = id }]

\* A step keeps every committed MVRRecord with its license and child rows
\* as they are, and a COMMIT adds one record for each payload the ingestion
\* inserted.
AppendOnly ==
  /\ \A r \in db.mvr_records :
        Aggregate(db', r.id) = Aggregate(db, r.id)
  /\ \A p \in Procs :
        (Ingesting(p) /\ h[p].pc = "commit" /\ h'[p].pc # "catch") =>
           Cardinality(db'.mvr_records) =
             Cardinality(db.mvr_records)
               + (IF h[p].kind = "add" THEN 1
                  ELSE Cardinality({ i \in 1..Len(h[p].results) :
                                       h[p].results[i].mvr_id # 0 }))

OneSubject == \A l \in Licenses : Cardinality(Subject(db, l)) <= 1

\* An add-mvr request that ended without a COMMIT of its own has no pending
\* write left.
RolledBackEntirely ==
  \A p \in Procs :
     (h[p].kind = "add" /\ h[p].pc \in {"done", "crashed"} /\ h[p].committed = {})
        => tx[p] = EmptyTx

\* A step keeps every Subject, and every MVRRecord it adds to the committed
\* store is the current record of a Subject, every child or license row it
\* adds belongs to a committed MVRRecord.
SubjectsStay ==
  /\ \A u \in db.users :
        \E v \in db'.users :
           v.id = u.id /\ v.drivers_license_number = u.drivers_license_number
  /\ \A r \in db'.mvr_records \ db.mvr_records :
        \E u \in db'.users : u.current_mvr_id = r.id
  /\ \A c \in (db'.child \ db.child) \cup
               (db'.drivers_license_info \ db.drivers_license_info) :
        \E r \in db'.mvr_records : r.id = c.mvr_id

\* C33: in every reachable state there is at most one Subject per license
\* number and a Subject once created is never deleted; of two concurrent
\* first-time ingestions for the same new license number at most one commits
\* a Subject, the other is rolled back entirely and leaves no MVRRecord or
\* child row without a Subject.
C33_OneSubjectPerLicense ==
  [](OneSubject /\ RolledBackEntirely) /\ [][SubjectsStay]_vars

\* Two add-mvr requests for the new license number L2, both started before
\* a Subject of L2 was committed: one answered 201, the other had inserted
\* its MVRRecord, failed and was answered 500, and the store holds one
\* Subject of L2 and no record of the failed request.
C33_Witness ==
  \E p, q \in Procs :
     /\ p # q
     /\ \A o \in {p, q} :
          /\ h[o].kind = "add" /\ h[o].pc = "done"
          /\ mvrData(o).drivers_license_number = "L2"
          /\ Subject(h[o].pre, "L2") = {}
          /\ h[o].mvrId # 0
     /\ h[p].response.statusCode = 201
     /\ h[q].response.statusCode = 500 /\ h[q].finalUserId = 0
     /\ Cardinality(Subject(db, "L2")) = 1
     /\ \A r \in db.mvr_records : r.id # h[q].mvrId

\* ------------------------------------------------------------------ C34
\* The batches that hold the record r together with one other record,
\* a retrieval, failure or ingestion event or data that does not parse,
\* before or after r.
BatchesWith(r) ==
  UNION { { <<r, [recordId |-> r.recordId + 1, data |-> d]>>,
            <<[recordId |-> r.recordId + 1, data |-> d], r>> } : d \in PipeData }

\* The result the stage returns for the record r when it is given the
\* batch rs.
ResultFor(stage, rs, r) ==
  LET out == Output(stage, rs, 1)
  IN  out[CHOOSE j \in 1..Len(rs) : rs[j] = r]

\* C34: within one invocation of a stage there is no cross-record state.
\* The result (status, data, partition keys) a stage that has run returned
\* for a record of its batch is the result the stage returns for that
\* record in any batch that holds it, alone, before or after any other
\* record.
C34_NoCrossRecordState ==
  \A x \in StagesRun : \A i \in 1..Len(x.records) :
     \A rs \in BatchesWith(x.records[i]) \cup {<<x.records[i]>>} :
        ResultFor(x.stage, rs, x.records[i]) = x.output[i]

\* AuditPartitioner has run on a batch of two records, the first of which
\* failed and the second of which is Ok.
C34_Witness ==
  /\ pipe.stage = "route" /\ Len(pipe.company) = 2
  /\ pipe.partitionOut[1].result = "ProcessingFailed"
  /\ pipe.partitionOut[2].result = "Ok"

\* ------------------------------------------------------------------ C35
\* The pending writes of add-mvr's cascade from its k-th insert on.
RECURSIVE CascadeFrom(_, _, _, _)
CascadeFrom(t, c, mvrId, k) ==
  IF k > Len(c) THEN t ELSE CascadeFrom(InsertChild(t, c[k], mvrId), c, mvrId, k + 1)

\* The store after add-mvr has served company_id's request for the payload
\* m on the store d: checkExistingUser, createMvrRecord with the local
\* storage_limitations, updateUserMvrId or createUser, the cascade, COMMIT.
SingleIngestion(d, company_id, m, today) ==
  LET rows  == SelectUsers(d, m.drivers_license_number)
      u     == CHOOSE u \in rows : TRUE
      mvrId == 1 + Cardinality(d.mvr_records)
      row   == MvrRow(mvrId, company_id,
                      [m EXCEPT !.storage_limitations =
                                  StorageLimitations(m.storage_limitations)],
                      today)
      t     == IF rows = {}
                 THEN [EmptyTx EXCEPT !.mvr_records = {row},
                         !.users = {UserRow(1 + Cardinality(d.users), m, mvrId)}]
                 ELSE [EmptyTx EXCEPT !.mvr_records = {row},
                         !.ptr = SetPointer({}, u.id, mvrId)]
  IN  IF rows # {} /\ HasRecentMvr(d, u.current_mvr_id, today)
        THEN [type |-> "SKIPPED", store |-> d]
        ELSE [type  |-> IF rows = {} THEN "NEW" ELSE "UPDATED",
              store |-> Merge(d, CascadeFrom(t, Cascade(m), mvrId, 1))]

\* The store d without the two columns of mvr_records batch-add-mvr fills
\* in its own way.
WithoutUploadMetadata(d) ==
  [d EXCEPT !.mvr_records =
     { [r EXCEPT !.date_uploaded = 0, !.storage_limitations = 0] : r \in @ }]

\* The batch of one payload that p commits in this step.
CommitsBatchOfOne(p) ==
  /\ h[p].kind = "batch" /\ h[p].pc = "commit" /\ Len(h[p].mvrs) = 1
  /\ h'[p].pc = "summary"

\* C35: each batch element runs the same per-record workflow as a single
\* ingestion.  A committed batch of one payload leaves the store a single
\* ingestion of that payload by the same company would leave from the same
\* prior state, with the same NEW/UPDATED/SKIPPED classification, Subject,
\* pointer, MVRRecord metadata (owning company, upload timestamp = time of
\* ingestion, storage_limitations) and child rows.
C35_BatchOfOneAsSingle ==
  [][\A p \in Procs :
       CommitsBatchOfOne(p) =>
         LET single == SingleIngestion(db, h[p].company_id, h[p].mvrs[1], now)
         IN  /\ h[p].results[1].type = single.type
             /\ db' = single.store]_vars

\* The part of C35 that holds: the same classification, Subject, pointer,
\* owning company and child rows.
C35_ExceptUploadMetadata ==
  [][\A p \in Procs :
       CommitsBatchOfOne(p) =>
         LET single == SingleIngestion(db, h[p].company_id, h[p].mvrs[1], now)
         IN  /\ h[p].results[1].type = single.type
             /\ WithoutUploadMetadata(db') = WithoutUploadMetadata(single.store)]_vars

\* ------------------------------------------------------------------ C36
\* The company key under which AuditPartitioner partitions the events
\* company_id writes itself.
CompanyKey(company_id) ==
  PartitionRecord([recordId |-> 1,
                   data |-> Data(TRUE, "valid",
                                 WriteEvent("add-mvr-lambda", PipeUser, company_id,
                                            "CREATE_MVR"))]).partitionKeys.company_id

\* The records of MirrorRouter's batch that are retrievals with a seller.
SoldRetrievals ==
  { i \in 1..Len(pipe.mirroring) :
      /\ pipe.mirroring[i].data.json
      /\ pipe.mirroring[i].data.entry.operation = "GET_MVR"
      /\ pipe.mirroring[i].data.entry.seller # "none" }

\* C36: MirrorRouter partitions a mirrored event under the company key
\* under which AuditPartitioner partitions the seller's own events, the
\* sanitized and length-capped company id, and it mirrors a retrieval when
\* the ids of seller and accessor differ after that normalization.
C36_SameCompanyKey ==
  pipe.stage = "end" =>
    \A i \in SoldRetrievals :
       LET e == pipe.mirroring[i].data.entry IN
       /\ pipe.mirrorOut[i].result = "Ok"
            <=> CompanyKey(e.seller) # CompanyKey(e.accessor)
       /\ pipe.mirrorOut[i].result = "Ok"
            => pipe.mirrorOut[i].partitionKeys.company_id = CompanyKey(e.seller)

\* The part of C36 that holds: for sellers and accessors whose ids have
\* only characters of [a-zA-Z0-9_-] and at most 50 of them, the keys of the
\* two stages agree.
C36_PlainIds ==
  pipe.stage = "end" =>
    \A i \in SoldRetrievals :
       LET e == pipe.mirroring[i].data.entry IN
       (CompanyKey(e.seller) = e.seller /\ CompanyKey(e.accessor) = e.accessor) =>
          /\ pipe.mirrorOut[i].result = "Ok" <=> e.seller # e.accessor
          /\ pipe.mirrorOut[i].result = "Ok"
               => pipe.mirrorOut[i].partitionKeys.company_id = CompanyKey(e.seller)

\* ------------------------------------------------------------------ C37
\* The records of MirrorRouter's batch that parse and are not the event of
\* a successful retrieval: failure events, WRITE events, summaries.
NotARetrieval ==
  { i \in 1..Len(pipe.mirroring) :
      /\ pipe.mirroring[i].data.json
      /\ \/ ~pipe.mirroring[i].data.entry.success
         \/ pipe.mirroring[i].data.entry.operation_category # "READ"
         \/ pipe.mirroring[i].data.entry.operation # "GET_MVR" }

\* C37: a mirrored event is produced only from the event of a successful
\* retrieval.  After MirrorRouter has run, no GET_MVR_FAILED event and no
\* WRITE event of its batch has an Ok result, whatever company ids the
\* event carries.
C37_OnlySuccessfulRetrievals ==
  pipe.stage = "end" =>
    \A i \in NotARetrieval : pipe.mirrorOut[i].result # "Ok"

\* MirrorRouter has run on a failed retrieval and on a WRITE event that
\* names its seller, and dropped both.
C37_Witness ==
  /\ pipe.stage = "end" /\ Len(pipe.mirroring) = 2
  /\ pipe.mirroring[1].data.json
  /\ pipe.mirroring[1].data.entry.operation = "GET_MVR_FAILED"
  /\ pipe.mirroring[2].data.json
  /\ pipe.mirroring[2].data.entry.operation_category = "WRITE"
  /\ pipe.mirroring[2].data.entry.seller # "none"
  /\ pipe.mirroring[2].data.entry.seller # pipe.mirroring[2].data.entry.accessor
  /\ \A i \in 1..2 : pipe.mirrorOut[i].result = "Dropped"

\* ------------------------------------------------------------------ C38
\* The attributes of a Subject row apart from its pointer.
Attributes(u) == [u EXCEPT !.current_mvr_id = 0]

\* A step leaves every committed Subject with the attributes it has.
SubjectFrame ==
  \A u \in db.users :
     \E v \in db'.users : v.id = u.id /\ Attributes(v) = Attributes(u)

\* C38: an accepted re-ingestion for an existing Subject changes only the
\* Subject's current-record pointer.  The license number, legal name and
\* the other attributes of the row keep the values stored at the first
\* ingestion, even when the new payload carries different values.
C38_OnlyThePointerChanges == [][SubjectFrame]_vars

\* An accepted re-ingestion whose payload carries a legal name other than
\* the Subject's has ended: the Subject points to the new record and has
\* the name it had.
C38_Witness ==
  \E p \in Procs : \E u \in db.users :
     /\ Succeeded(p) /\ h[p].kind = "add" /\ h[p].response.statusCode = 201
     /\ h[p].userId = u.id
     /\ u.current_mvr_id = h[p].mvrId
     /\ mvrData(p).drivers_license_number = u.drivers_license_number
     /\ mvrData(p).full_legal_name # u.full_legal_name

\* ------------------------------------------------------------------ C39
\* The retrieval p has built its 200 response from the record the Subject
\* points to.
Retrieved(p) ==
  /\ h[p].kind = "get" /\ h[p].pc \in {"audit", "done"}
  /\ h[p].response.statusCode = 200
  /\ \E u \in db.users : u.id = h[p].userData.id
                          /\ u.current_mvr_id = h[p].mvrRecord.mvr_id

\* C39: ingest/retrieve round trip for license info.  A successful
\* retrieval returns a non-null licenseInfo if the ingestion of the current
\* record stored a LicenseInfo row, and null only if the current record has
\* no LicenseInfo row.
C39_LicenseInfoRoundTrip ==
  \A p \in Procs :
     Retrieved(p) =>
        (h[p].mvrRecord.licenseInfo <=> LicenseRows(h[p].mvrRecord.mvr_id) # {})

\* The part of C39 that holds: licenseInfo is non-null exactly when the
\* current record has a LicenseInfo row with a license_class.
C39_WithLicenseClass ==
  \A p \in Procs :
     Retrieved(p) =>
        (h[p].mvrRecord.licenseInfo
           <=> \E i \in LicenseRows(h[p].mvrRecord.mvr_id) : "license_class" \in i.fields)

\* ------------------------------------------------------------------ C40
\* The payloads of p's batch that carry the license number l.
WithLicense(p, l) ==
  { i \in 1..Len(h[p].mvrs) : h[p].mvrs[i].drivers_license_number = l }

\* The batch of p is committed: the first payload with the license number l
\* is NEW or UPDATED, every later one is SKIPPED, and the batch has created
\* at most one MVRRecord and left at most one Subject of l.
Deduplicated(p, l) ==
  /\ \A i \in WithLicense(p, l) :
        IF \A j \in WithLicense(p, l) : i <= j
          THEN h[p].results[i].type \in {"NEW", "UPDATED"}
          ELSE h[p].results[i].type = "SKIPPED"
  /\ Cardinality({ i \in WithLicense(p, l) : h[p].results[i].mvr_id # 0 }) <= 1
  /\ Cardinality(Subject(db, l)) <= 1

\* C40: within one batch, payloads with the same license number are
\* deduplicated against each other.  When no recent record existed before
\* the batch, the first such payload is processed as NEW or UPDATED and
\* every later one as SKIPPED, so a committed batch creates at most one
\* MVRRecord and at most one Subject per license number.
C40_BatchDeduplication ==
  \A p \in Procs : \A l \in Licenses :
     (h[p].kind = "batch" /\ h[p].pc = "summary" /\ ~InWindow(h[p].pre, l, now))
        => Deduplicated(p, l)

\* The part of C40 that holds: the same when the first payload with the
\* license number carries no date_uploaded.
C40_WithoutDateUploaded ==
  \A p \in Procs : \A l \in Licenses :
     (/\ h[p].kind = "batch" /\ h[p].pc = "summary" /\ ~InWindow(h[p].pre, l, now)
      /\ \A i \in WithLicense(p, l) :
            (\A j \in WithLicense(p, l) : i <= j) => h[p].mvrs[i].date_uploaded = <<>>)
        => Deduplicated(p, l)

====
